---- MODULE Spec2Model ----
(***************************************************************************)
(* mongey: document-model layer over a document store, with a two-level    *)
(* cache, cache invalidation on every mutation and reference integrity     *)
(* (raise / cascade / detach) on destroy.                                  *)
(*                                                                         *)
(* Values.  Python values held by fields are encoded as integers:          *)
(*   None                 the Python None                                  *)
(*   1 .. MaxId           bson ObjectIds, in the order the store hands     *)
(*                        them out (insert_one never reuses one)           *)
(*   MaxId+1 .. +MaxNames strings that are not the hex form of an ObjectId *)
(* A cache key f"{collection}.{value}" is the triple                       *)
(* <<collection, value, "">>, f"{collection}.{id}.{method}" is             *)
(* <<collection, id, method>>.                                             *)
(***************************************************************************)
EXTENDS Integers, Sequences, FiniteSets, TLC

\* ------------------------------------------------------------------ bounds
MaxId == 3
MaxNames == 2
MaxCacheDocs == 2
MaxNodes == 2
MaxCalls == 2
MaxLookupDocs == 1
MaxReaders == 2
MaxListLen == 3
MaxSubDocs == 2
MaxUpdateDocs == 2

None == 0
Ids == 1..MaxId
Names == {MaxId + n : n \in 1..MaxNames}

\* ------------------------------------------------------------------ schema
\* The model types of the checked program, shaped after the test suite's
\* Master / Minion types (tests/test_reference.py) and User
\* (tests/test_storable_model.py):
\*
\*   class Master(StorableModel):
\*       KEY_FIELD = "name"; CACHE_KEY_FIELDS = ("alias",)
\*       name = StringField(); alias = StringField()
\*       @model_cached_method
\*       async def full_name(self): ...
\*   class Worker(StorableModel, ABC):
\*       master_id = ReferenceField(reference_model=Master)               # RAISE
\*   class Minion(Worker):
\*       other_id  = ReferenceField(reference_model=Master, on_destroy=OnDestroy.DETACH)
\*   class Task(StorableModel):
\*       master_id = ReferenceField(reference_model=Master)               # RAISE
\*       other_id  = ReferenceField(reference_model=Master, on_destroy=OnDestroy.CASCADE)
\*
\* a dependent of a dependent, for the cascade (specification SpecCascade):
\*
\*   class Subtask(StorableModel):
\*       other_id  = ReferenceField(reference_model=Task)                 # RAISE
\*
\* and, for the class statements run in any order (specification SpecTypes),
\* a sub-type of a referenced type, a type that refers to the sub-type and
\* the self-referring Model of tests/test_reference.py:
\*
\*   class SubMaster(Master): pass
\*   class Agent(StorableModel):
\*       boss_id   = ReferenceField(reference_model=SubMaster)            # RAISE
\*   class Model(StorableModel):
\*       parent_id = SelfReferenceField(on_destroy=OnDestroy.RAISE)

LibClasses == {"MetaModel", "BaseModel", "StorableModel"}
AbstractClasses == {"Worker"}
UserClasses == {"Master", "Minion", "Task"}
NestedClasses == {"Subtask"}
ModelClasses == UserClasses \cup NestedClasses
Classes == LibClasses \cup AbstractClasses \cup ModelClasses

\* the order in which the class statements run
DefOrder ==
    <<"BaseModel", "StorableModel", "Master", "Worker", "Minion", "Task", "Subtask">>

Parent(c) ==
    CASE c = "BaseModel" -> "MetaModel"
      [] c = "StorableModel" -> "BaseModel"
      [] c = "Minion" -> "Worker"
      [] c = "SubMaster" -> "Master"
      [] OTHER -> "StorableModel"

RECURSIVE Mro(_)
Mro(c) == IF c = "MetaModel" THEN <<c>> ELSE <<c>> \o Mro(Parent(c))

RAISE == "raise"
CASCADE == "cascade"
DETACH == "detach"

DataFields == {"name", "alias", "master_id", "other_id"}

\* the Field descriptors declared in each class body
DeclaredFields(c) ==
    CASE c = "BaseModel" -> {"id"}
      [] c = "Master" -> {"name", "alias"}
      [] c = "Worker" -> {"master_id"}
      [] c = "Minion" -> {"other_id"}
      [] c = "Task" -> {"master_id", "other_id"}
      [] c = "Subtask" -> {"other_id"}
      [] c = "Agent" -> {"boss_id"}
      [] c = "Model" -> {"parent_id"}
      [] OTHER -> {}

\* the arguments of the ReferenceField descriptors
RefDecl(c, f) ==
    CASE c = "Worker" /\ f = "master_id" ->
            [reference_model |-> "Master", on_destroy |-> RAISE, required |-> FALSE]
      [] c = "Minion" /\ f = "other_id" ->
            [reference_model |-> "Master", on_destroy |-> DETACH, required |-> FALSE]
      [] c = "Task" /\ f = "master_id" ->
            [reference_model |-> "Master", on_destroy |-> RAISE, required |-> FALSE]
      [] c = "Task" /\ f = "other_id" ->
            [reference_model |-> "Master", on_destroy |-> CASCADE, required |-> FALSE]
      [] c = "Subtask" /\ f = "other_id" ->
            [reference_model |-> "Task", on_destroy |-> RAISE, required |-> FALSE]
      [] c = "Agent" /\ f = "boss_id" ->
            [reference_model |-> "SubMaster", on_destroy |-> RAISE, required |-> FALSE]
      [] c = "Model" /\ f = "parent_id" ->
            \* SelfReferenceField.__init__ passes reference_model=None
            [reference_model |-> "", on_destroy |-> RAISE, required |-> FALSE]

DeclaredRefFields(c) ==
    IF c \in {"Worker", "Minion", "Task", "Subtask", "Agent", "Model"}
    THEN DeclaredFields(c) ELSE {}

\* class attributes KEY_FIELD / CACHE_KEY_FIELDS as written in the class body
\* ("" / {} when the class body does not assign them)
DeclaredKeyField(c) ==
    CASE c = "MetaModel" -> "id"
      [] c = "Master" -> "name"
      [] OTHER -> ""

DeclaredCacheKeyFields(c) == IF c = "Master" THEN {"alias"} ELSE {}

DeclaredCachedMethods(c) == IF c = "Master" THEN {"full_name"} ELSE {}

\* inspect.isabstract(c) or ABC in c.__bases__
IsAbstract(c) == c \in AbstractClasses

\* ------------------------------------------------------- class construction
RECURSIVE SeqToSet(_)
SeqToSet(s) == IF s = <<>> THEN {} ELSE {Head(s)} \cup SeqToSet(Tail(s))

\* inspect.getmembers(cls): the descriptors of the class and of its bases
_fields(c) == UNION {DeclaredFields(b) : b \in SeqToSet(Mro(c))}

\* the class a reference field of c was declared in
RECURSIVE FieldOwner(_, _)
FieldOwner(c, f) ==
    IF f \in DeclaredRefFields(c) THEN c ELSE FieldOwner(Parent(c), f)

RefFields(c) == UNION {DeclaredRefFields(b) : b \in SeqToSet(Mro(c))}

RefOf(c, f) == RefDecl(FieldOwner(c, f), f)

\* attribute lookup of KEY_FIELD along the MRO
RECURSIVE KEY_FIELD(_)
KEY_FIELD(c) ==
    IF DeclaredKeyField(c) # "" THEN DeclaredKeyField(c) ELSE KEY_FIELD(Parent(c))

RECURSIVE CACHE_KEY_FIELDS(_)
CACHE_KEY_FIELDS(c) ==
    IF DeclaredCacheKeyFields(c) # {} \/ c = "MetaModel"
    THEN DeclaredCacheKeyFields(c)
    ELSE CACHE_KEY_FIELDS(Parent(c))

\* MetaModel.__get_cache_key_fields: every base's KEY_FIELD ("_id" renamed to
\* "id") and CACHE_KEY_FIELDS
GetCacheKeyFieldsOwnOnly(c) ==
    {IF KEY_FIELD(c) = "_id" THEN "id" ELSE KEY_FIELD(c)} \cup CACHE_KEY_FIELDS(c)

_cache_key_fields(c) ==
    UNION {
        {IF KEY_FIELD(b) = "_id" THEN "id" ELSE KEY_FIELD(b)} \cup CACHE_KEY_FIELDS(b)
        : b \in SeqToSet(Mro(c))}

\* snake_case(cls.__name__); no model type here sets COLLECTION
collection(c) ==
    CASE c = "Master" -> "master"
      [] c = "Minion" -> "minion"
      [] c = "Task" -> "task"
      [] c = "Subtask" -> "subtask"
      [] OTHER -> c

\* The class attributes _cached_methods and _references.  own: the attribute
\* is in the class's own __dict__; isNone: its value is None; s: the set
\* object's elements.  A class without the attribute in its own __dict__
\* reads (and mutates) the set object of the nearest base that has it.
NoAttr == [own |-> FALSE, isNone |-> FALSE, s |-> {}]
NoneAttr == [own |-> TRUE, isNone |-> TRUE, s |-> {}]
NewSet == [own |-> TRUE, isNone |-> FALSE, s |-> {}]

InitialAttrs ==
    [cm |-> [c \in Classes |-> IF c = "MetaModel" THEN NoneAttr ELSE NoAttr],
     refs |-> [c \in Classes |-> IF c = "MetaModel" THEN NoneAttr ELSE NoAttr]]

RECURSIVE Holder(_, _)
Holder(attr, c) == IF attr[c].own THEN c ELSE Holder(attr, Parent(c))

Falsy(attr, c) == attr[Holder(attr, c)].isNone \/ attr[Holder(attr, c)].s = {}

ModelReference(cls, field, policy) ==
    [ref_class |-> cls, ref_field |-> field, on_destroy |-> policy]

\* model_cached_method.__set_name__: owner._cached_methods.add(name), run
\* while the class body is evaluated, before __init_subclass__
SetName(st, owner, name) ==
    LET h == Holder(st.cm, owner)
    IN [st EXCEPT !.cm[h].s = @ \cup {name}]

RECURSIVE SetNames(_, _, _)
SetNames(st, owner, names) ==
    IF names = {} THEN st
    ELSE LET n == CHOOSE x \in names : TRUE
         IN SetNames(SetName(st, owner, n), owner, names \ {n})

\* MetaModel.add_ref: cls._references.add(ref)
add_ref(st, cls, ref) ==
    LET h == Holder(st.refs, cls)
    IN [st EXCEPT !.refs[h].s = @ \cup {ref}]

\* the type a registration goes to: ReferenceField's reference_model argument;
\* SelfReferenceField.register_ref sets self._reference_model = owner first
_reference_model(owner, name) ==
    IF RefOf(owner, name).reference_model = "" THEN owner
    ELSE RefOf(owner, name).reference_model

\* ReferenceField.register_ref / SelfReferenceField.register_ref
RegisterRefOfAbstractToo(st, owner, name) ==
    add_ref(st, _reference_model(owner, name),
            ModelReference(owner, name, RefOf(owner, name).on_destroy))

register_ref(st, owner, name) ==
    IF ~IsAbstract(owner)
    THEN add_ref(st, _reference_model(owner, name),
                 ModelReference(owner, name, RefOf(owner, name).on_destroy))
    ELSE st

RECURSIVE RegisterRefs(_, _, _)
RegisterRefs(st, owner, names) ==
    IF names = {} THEN st
    ELSE LET n == CHOOSE x \in names : TRUE
         IN RegisterRefs(register_ref(st, owner, n), owner, names \ {n})

\* MetaModel.__init_subclass__
InitSubclass(st, cls) ==
    LET st1 == RegisterRefs(st, cls, RefFields(cls))
        st2 == IF Falsy(st1.cm, cls) THEN [st1 EXCEPT !.cm[cls] = NewSet] ELSE st1
    IN IF Falsy(st2.refs, cls) THEN [st2 EXCEPT !.refs[cls] = NewSet] ELSE st2

\* one class statement: the body (descriptors' __set_name__), then
\* __init_subclass__
DefineClass(st, cls) ==
    InitSubclass(SetNames(st, cls, DeclaredCachedMethods(cls)), cls)

RECURSIVE DefineAll(_, _)
DefineAll(st, order) ==
    IF order = <<>> THEN st
    ELSE DefineAll(DefineClass(st, Head(order)), Tail(order))

ClassAttrs == DefineAll(InitialAttrs, DefOrder)

_cached_methods(c) == ClassAttrs.cm[Holder(ClassAttrs.cm, c)].s
_references(c) == ClassAttrs.refs[Holder(ClassAttrs.refs, c)].s

\* the class attributes, computed once when the classes are defined
FieldsOf == [c \in Classes |-> _fields(c)]
RefFieldsOf == [c \in Classes |-> RefFields(c)]
CacheKeyFieldsOf == [c \in Classes |-> _cache_key_fields(c)]
CachedMethodsOf == [c \in Classes |-> _cached_methods(c)]
ReferencesOf == [c \in Classes |-> _references(c)]
KeyFieldOf == [c \in Classes |-> KEY_FIELD(c)]


\* ------------------------------------------------------------------- state
VARIABLES
    store,   \* the document store: _id -> document (NoDoc when there is none)
    nextId,  \* the next ObjectId insert_one hands out
    obj,     \* the model instance the application holds
    last,    \* the last operation: its arguments, its outcome and the
             \* cache / storage calls it issued, in order
    l1,      \* ctx.l1_cache: the backend configured for tier 1
    l2,      \* ctx.l2_cache: the backend configured for tier 2
    ret,     \* what the last call of a backend or of a cached lookup returned
    run      \* the coroutines in flight: where each one is suspended

vars == <<store, nextId, obj, last, l1, l2, ret, run>>

Values == {None} \cup Ids \cup Names
NoFields == [name |-> None, alias |-> None, master_id |-> None, other_id |-> None]
NoDoc == [cls |-> "none", f |-> NoFields]
NoObj == [cls |-> "none", id |-> None, f |-> NoFields,
          init |-> [id |-> None, f |-> NoFields]]

IsObjectId(v) == v \in Ids

\* getattr(self, field) / self._initial_state.get(field)
GetAttr(o, field) == IF field = "id" THEN o.id ELSE o.f[field]
InitialGet(o, field) == IF field = "id" THEN o.init.id ELSE o.init.f[field]

\* BaseModel._set_initial_state: a deep copy of every field
SetInitialStateStale(o) == o
_set_initial_state(o) == [o EXCEPT !.init = [id |-> o.id, f |-> o.f]]

\* BaseModel.__init__(attrs): fields from attrs ("_id" for id), defaults
\* (None) for the rest, then the snapshot
Ctor(c, id, attrs) ==
    _set_initial_state(
        [cls |-> c, id |-> id,
         f |-> [x \in DataFields |-> IF x \in FieldsOf[c] THEN attrs[x] ELSE None],
         init |-> [id |-> None, f |-> NoFields]])

\* BaseModel.to_dict(include_restricted=True, convert_id=True) without "_id"
ToDoc(o) == [cls |-> o.cls, f |-> o.f]

\* -------------------------------------------------------------- the store
\* a query is [field, value]; field "" is the empty query {}
AllQuery == [field |-> "", value |-> None]
Query(field, value) == [field |-> field, value |-> value]

Matches(st, c, q, i) ==
    /\ st[i].cls = c
    /\ \/ q.field = ""
       \/ q.field = "_id" /\ q.value = i
       \/ q.field \in DataFields /\ st[i].f[q.field] = q.value

\* cursor.to_list(): the _ids of the matching documents of cls.collection
FindIds(st, c, q) == {i \in Ids : Matches(st, c, q, i)}

\* Shard.delete_query -> delete_many
DeleteQueryNothing(st, c, q) == st
delete_query(st, c, q) ==
    [i \in Ids |-> IF Matches(st, c, q, i) THEN NoDoc ELSE st[i]]

\* Shard.update_query -> update_many(query, {"$set": {field: value}})
UpdateQueryAll(st, c, q, patch) ==
    [i \in Ids |-> IF st[i].cls = c
                   THEN [st[i] EXCEPT !.f[patch.field] = patch.value]
                   ELSE st[i]]
update_query(st, c, q, patch) ==
    [i \in Ids |-> IF Matches(st, c, q, i)
                   THEN [st[i] EXCEPT !.f[patch.field] = patch.value]
                   ELSE st[i]]

\* util.resolve_id + StorableModel._resolve_get_query: an ObjectId (or its
\* hex string) is looked up by _id, any other expression by KEY_FIELD
ResolveByIdOnly(c, expression) == Query("_id", expression)
_resolve_get_query(c, expression) ==
    IF IsObjectId(expression)
    THEN Query("_id", expression)
    ELSE Query(KeyFieldOf[c], expression)

\* StorableModel.get(expression) is not None
GetFinds(st, c, expression) ==
    /\ expression # None
    /\ FindIds(st, c, _resolve_get_query(c, expression)) # {}

\* ----------------------------------------------------- cache / store calls
Ev(op, tier, key) == [op |-> op, tier |-> tier, key |-> key]
EntityKey(c, value) == <<collection(c), value, "">>
MethodKey(c, id, method) == <<collection(c), id, method>>
DbEv(op, c, id) == Ev(op, 0, EntityKey(c, id))

\* StorableModel._invalidate: delete on L1, then on L2
InvalidateL1Only(cache_key) == <<Ev("delete", 1, cache_key)>>
_invalidate(cache_key) == <<Ev("delete", 1, cache_key), Ev("delete", 2, cache_key)>>

\* the elements of a finite set of integers, ascending
RECURSIVE Ascending(_)
Ascending(S) ==
    IF S = {} THEN <<>>
    ELSE LET m == CHOOSE x \in S : \A y \in S : x <= y
         IN <<m>> \o Ascending(S \ {m})

\* the elements of a finite set, in one fixed order (the order Python
\* iterates a set of strings in is not observable through the calls below)
RECURSIVE InSomeOrder(_)
InSomeOrder(S) ==
    IF S = {} THEN <<>>
    ELSE LET m == CHOOSE x \in S : TRUE
         IN <<m>> \o InSomeOrder(S \ {m})

RECURSIVE Concat(_)
Concat(ss) == IF ss = <<>> THEN <<>> ELSE Head(ss) \o Concat(Tail(ss))

\* the key-field part of invalidate / invalidate_many; values gives the value
\* the record has for each of its cache-key fields
KeyFieldDeletes(c, values) ==
    LET fields == InSomeOrder(CacheKeyFieldsOf[c])
    IN Concat([k \in 1..Len(fields) |->
                  IF values[fields[k]] # None
                  THEN _invalidate(EntityKey(c, values[fields[k]]))
                  ELSE <<>>])

MethodDeletes(c, id) ==
    LET methods == InSomeOrder(CachedMethodsOf[c])
    IN Concat([k \in 1..Len(methods) |-> _invalidate(MethodKey(c, id, methods[k]))])

\* StorableModel.invalidate: keys from the initial-state snapshot, then the
\* memoized-method keys unless the record is new
InvalidateFromCurrent(o) ==
    KeyFieldDeletes(o.cls, [field \in CacheKeyFieldsOf[o.cls] |-> GetAttr(o, field)])
    \o (IF o.id # None THEN MethodDeletes(o.cls, o.id) ELSE <<>>)

InvalidateNoMethods(o) ==
    KeyFieldDeletes(o.cls, [field \in CacheKeyFieldsOf[o.cls] |-> InitialGet(o, field)])

invalidate(o) ==
    KeyFieldDeletes(o.cls, [field \in CacheKeyFieldsOf[o.cls] |-> InitialGet(o, field)])
    \o (IF o.id # None THEN MethodDeletes(o.cls, o.id) ELSE <<>>)

\* StorableModel.invalidate_many: the records find(query) returns, and for
\* each its key-field keys (current values) and memoized-method keys
InvalidateManyNothing(st, c, q) == <<>>
invalidate_many(st, c, q) ==
    LET models == Ascending(FindIds(st, c, q))
    IN Concat([k \in 1..Len(models) |->
                  KeyFieldDeletes(c, [field \in CacheKeyFieldsOf[c] |->
                                         IF field = "id" THEN models[k]
                                         ELSE st[models[k]].f[field]])
                  \o MethodDeletes(c, models[k])])


\* -------------------------------------------------------------- validation
\* the order of cls._fields: inspect.getmembers sorts by name
FieldOrder == <<"alias", "id", "master_id", "name", "other_id">>

IsRefField(c, field) == field \in RefFieldsOf[c]

\* Field.validate: a required field must not be None (the model types here
\* give their fields values of the declared types and declare no choices)
RequiredMissing(o, field) ==
    /\ IsRefField(o.cls, field)
    /\ RefOf(o.cls, field).required
    /\ GetAttr(o, field) = None

\* ReferenceField.validate: a value that is not None must be found by
\* reference_model.get(value)
RefValidateByIdOnly(st, o, field) ==
    /\ IsRefField(o.cls, field)
    /\ GetAttr(o, field) # None
    /\ FindIds(st, RefOf(o.cls, field).reference_model,
               Query("_id", GetAttr(o, field))) = {}

RefValidateNoLookup(st, o, field) == FALSE

BrokenReference(st, o, field) ==
    /\ IsRefField(o.cls, field)
    /\ GetAttr(o, field) # None
    /\ ~GetFinds(st, RefOf(o.cls, field).reference_model, GetAttr(o, field))

FieldFails(st, o, field) ==
    /\ field \in FieldsOf[o.cls]
    /\ RequiredMissing(o, field) \/ BrokenReference(st, o, field)

\* BaseModel.validate_all: the first field whose validate raises, "" if none
validate_all(st, o) ==
    LET bad == {k \in 1..Len(FieldOrder) : FieldFails(st, o, FieldOrder[k])}
    IN IF bad = {} THEN ""
       ELSE FieldOrder[CHOOSE k \in bad : \A j \in bad : k <= j]

\* ------------------------------------------------------------- operations
\* what an operation leaves in `last`
Result(op, o, inv, res, names, field, log) ==
    [op |-> op, cls |-> o.cls, id |-> o.id, inv |-> inv,
     res |-> res, names |-> names, field |-> field, log |-> log]

Quiet(op) == Result(op, NoObj, FALSE, "ok", {}, "", <<>>)

\* cls(attrs) / cls.create(**attrs): a new instance, not yet persisted
Create(c, attrs) ==
    /\ obj' = Ctor(c, None, attrs)
    /\ last' = Quiet("create")
    /\ UNCHANGED <<store, nextId>>

\* cls.find_one({"_id": i}): an instance built from the stored document
Load(i) ==
    /\ store[i].cls \in ModelClasses
    /\ obj' = Ctor(store[i].cls, i, store[i].f)
    /\ last' = Quiet("find_one")
    /\ UNCHANGED <<store, nextId>>

\* Shard.save_obj: insert_one for a new object (the store assigns the id),
\* replace_one(..., upsert=True) otherwise
SaveObjEvent(o) ==
    IF o.id = None THEN DbEv("insert_one", o.cls, None)
    ELSE DbEv("replace_one", o.cls, o.id)

\* BaseModel.save with the default hooks (which do nothing)
SaveInvalidatesAfter(o, invalidate_cache) ==
    <<SaveObjEvent(o)>> \o (IF invalidate_cache THEN invalidate(o) ELSE <<>>)

SaveLog(o, invalidate_cache) ==
    (IF invalidate_cache THEN invalidate(o) ELSE <<>>) \o <<SaveObjEvent(o)>>

\* save() of instance o; next is the id insert_one would assign
SaveOutcome(st, o, next, invalidate_cache) ==
    LET bad == validate_all(st, o)
        id == IF o.id = None THEN next ELSE o.id
    IN IF bad # ""
       THEN [store |-> st, obj |-> o, inserted |-> FALSE,
             res |-> "ValidationError",
             names |-> {RefOf(o.cls, bad).reference_model}, field |-> bad,
             log |-> <<>>]
       ELSE [store |-> [i \in Ids |-> IF i = id THEN ToDoc(o) ELSE st[i]],
             obj |-> _set_initial_state([o EXCEPT !.id = id]),
             inserted |-> (o.id = None),
             res |-> "ok", names |-> {}, field |-> "",
             log |-> SaveLog(o, invalidate_cache)]

Save(invalidate_cache) ==
    /\ obj.cls \in ModelClasses
    /\ LET out == SaveOutcome(store, obj, nextId, invalidate_cache)
       IN /\ out.inserted => nextId \in Ids
          /\ store' = out.store
          /\ obj' = out.obj
          /\ nextId' = IF out.inserted THEN nextId + 1 ELSE nextId
          /\ last' = Result("save", obj, invalidate_cache,
                            out.res, out.names, out.field, out.log)

\* the fields update() refuses to change (Field(rejected=True)): none of the
\* model types here declares one
Rejected(c, field) == FALSE

\* StorableModel.update(data) with data = {patch.field: patch.value}: the
\* accepted fields are assigned in memory, then save()
Update(patch) ==
    /\ obj.cls \in UserClasses
    /\ patch.field \in FieldsOf[obj.cls] \ {"id"}
    /\ LET o == IF Rejected(obj.cls, patch.field) THEN obj
                ELSE [obj EXCEPT !.f[patch.field] = patch.value]
           out == SaveOutcome(store, o, nextId, TRUE)
       IN /\ out.inserted => nextId \in Ids
          /\ store' = out.store
          /\ obj' = out.obj
          /\ nextId' = IF out.inserted THEN nextId + 1 ELSE nextId
          /\ last' = Result("update", obj, TRUE,
                            out.res, out.names, out.field, out.log)

\* StorableModel.destroy_many / update_many: invalidate_many(query), then the
\* bulk storage call
BulkEvent(op, c) == DbEv(op, c, None)

DestroyManyLogMutateFirst(st, c, q) ==
    <<BulkEvent("delete_many", c)>> \o invalidate_many(st, c, q)

DestroyManyLog(st, c, q) ==
    invalidate_many(st, c, q) \o <<BulkEvent("delete_many", c)>>

UpdateManyLog(st, c, q) ==
    invalidate_many(st, c, q) \o <<BulkEvent("update_many", c)>>

\* BaseModel._check_refs_on_destroy: the references of the record's type, in
\* the order the set self._references is iterated in.  acc is the store, the
\* calls issued so far and ref_classes.
CheckRefDetachesCascade(acc, id, ref) ==
    LET q == Query(ref.ref_field, id)
        c == ref.ref_class
    IN CASE ref.on_destroy = RAISE ->
              IF FindIds(acc.store, c, q) # {}
              THEN [acc EXCEPT !.ref_classes = @ \cup {c}]
              ELSE acc
         [] OTHER ->
              [acc EXCEPT !.store = update_query(acc.store, c, q,
                                                 [field |-> ref.ref_field, value |-> None]),
                          !.log = @ \o UpdateManyLog(acc.store, c, q)]

CheckRef(acc, id, ref) ==
    LET q == Query(ref.ref_field, id)
        c == ref.ref_class
    IN CASE ref.on_destroy = RAISE ->
              IF FindIds(acc.store, c, q) # {}
              THEN [acc EXCEPT !.ref_classes = @ \cup {c}]
              ELSE acc
         [] ref.on_destroy = CASCADE ->
              [acc EXCEPT !.store = delete_query(acc.store, c, q),
                          !.log = @ \o DestroyManyLog(acc.store, c, q)]
         [] ref.on_destroy = DETACH ->
              [acc EXCEPT !.store = update_query(acc.store, c, q,
                                                 [field |-> ref.ref_field, value |-> None]),
                          !.log = @ \o UpdateManyLog(acc.store, c, q)]

RECURSIVE CheckRefs(_, _, _)
CheckRefs(acc, id, order) ==
    IF order = <<>> THEN acc
    ELSE CheckRefs(CheckRef(acc, id, Head(order)), id, Tail(order))

\* the orders a set can be iterated in
Orders(S) ==
    {p \in [1..Cardinality(S) -> S] : \A i, j \in 1..Cardinality(S) : p[i] = p[j] => i = j}

IterationOrders == [c \in Classes |-> Orders(ReferencesOf[c])]

_check_refs_on_destroy(st, o, order) ==
    CheckRefs([store |-> st, log |-> <<>>, ref_classes |-> {}], o.id, order)

\* BaseModel.destroy with the default hooks: _before_delete runs
\* _check_refs_on_destroy, which raises after its loop
Destroy(invalidate_cache) ==
    /\ obj.cls \in ModelClasses
    /\ IF obj.id = None
       THEN /\ last' = Result("destroy", obj, invalidate_cache,
                              "new", {}, "", <<>>)
            /\ UNCHANGED <<store, nextId, obj>>
       ELSE \E order \in IterationOrders[obj.cls] :
              LET acc == _check_refs_on_destroy(store, obj, order)
              IN IF acc.ref_classes # {}
                 THEN /\ store' = acc.store
                      /\ last' = Result("destroy", obj, invalidate_cache,
                                        "ObjectHasReferences", acc.ref_classes, "",
                                        acc.log)
                      /\ UNCHANGED <<nextId, obj>>
                 ELSE /\ store' = [acc.store EXCEPT ![obj.id] =
                                     IF @.cls = obj.cls THEN NoDoc ELSE @]
                      /\ obj' = [obj EXCEPT !.id = None]
                      /\ last' = Result("destroy", obj, invalidate_cache,
                                        "ok", {}, "",
                                        acc.log
                                        \o (IF invalidate_cache THEN invalidate(obj) ELSE <<>>)
                                        \o <<DbEv("delete_one", obj.cls, obj.id)>>)
                      /\ UNCHANGED nextId

\* cls.destroy_many(query)
DestroyMany(c, q) ==
    /\ store' = delete_query(store, c, q)
    /\ last' = Result("destroy_many", [cls |-> c, id |-> None], TRUE,
                      "ok", {}, "", DestroyManyLog(store, c, q))
    /\ UNCHANGED <<nextId, obj>>

\* cls.destroy_all(): delete_query with the preprocessed empty query
DestroyAllInvalidates(st, c) == DestroyManyLog(st, c, AllQuery)
DestroyAllLog(st, c) == <<BulkEvent("delete_many", c)>>

DestroyAll(c) ==
    /\ store' = delete_query(store, c, AllQuery)
    /\ last' = Result("destroy_all", [cls |-> c, id |-> None], FALSE,
                      "ok", {}, "", DestroyAllLog(store, c))
    /\ UNCHANGED <<nextId, obj>>

\* cls.update_many(query, {"$set": {patch.field: patch.value}})
UpdateMany(c, q, patch) ==
    /\ store' = update_query(store, c, q, patch)
    /\ last' = Result("update_many", [cls |-> c, id |-> None], TRUE,
                      "ok", {}, "", UpdateManyLog(store, c, q))
    /\ UNCHANGED <<nextId, obj>>

\* ---------------------------------------------------------- cache backends
\* a mapping (dict) as a set of <<key, value>> pairs
NoEntries == {}
DictHas(d, key) == \E e \in d : e[1] = key
DictGet(d, key) == IF DictHas(d, key) THEN (CHOOSE e \in d : e[1] = key)[2] ELSE None
DictSet(d, key, value) == {e \in d : e[1] # key} \cup {<<key, value>>}
DictDel(d, key) == {e \in d : e[1] # key}

\* a backend: kind is the engine (CACHE_ENGINE_MAP); data is the mapping of
\* SimpleCache (__static_cache__) or of RequestLocalCache (the dict in ctxvar,
\* scope = FALSE when ctxvar holds None); calls is TraceCache.calls; nodes is
\* the mapping kept by each node of MemcachedCache._backends
Backend(kind) ==
    [kind |-> kind, scope |-> TRUE, data |-> NoEntries, calls |-> <<>>, nodes |-> <<>>]
NoCache == Backend("no_cache")
SimpleCache == Backend("simple")
RequestLocalCache(scope) == [Backend("request_local") EXCEPT !.scope = scope]
TraceCache == Backend("trace")

Call(op, key, value) == [op |-> op, key |-> key, value |-> value]
Traced(b, op, key, value) ==
    IF b.kind = "trace" THEN [b EXCEPT !.calls = Append(@, Call(op, key, value))] ELSE b

\* the mapping a SimpleCache or a RequestLocalCache inside a scope works on
Stores(b) == b.kind = "simple" \/ (b.kind = "request_local" /\ b.scope)

\* get(key): the value, None when there is none
BackendGet(b, key) == IF Stores(b) THEN DictGet(b.data, key) ELSE None

\* has(key)
BackendHas(b, key) == Stores(b) /\ DictHas(b.data, key)

\* set(key, value): the backend afterwards
SetStoresNothing(b, key, value) == Traced(b, "set", key, value)
BackendSet(b, key, value) ==
    IF Stores(b) THEN [b EXCEPT !.data = DictSet(@, key, value)]
    ELSE Traced(b, "set", key, value)

\* delete(key): the backend afterwards, and the value returned
DeleteKeepsKey(b, key) == Traced(b, "delete", key, None)
BackendDelete(b, key) ==
    IF Stores(b) THEN [b EXCEPT !.data = DictDel(@, key)]
    ELSE Traced(b, "delete", key, None)

BackendDeleteResult(b, key) ==
    CASE b.kind = "trace" -> "False"
      [] OTHER -> "None"

\* what a call returned
\* result: "value" (value was returned), "None", "True", "False", or "raise"
\* (the exception exc left the call); loads: how often the loader or the
\* original method was awaited; faults: how many attempts of the node clients
\* failed during the call; data: the document a cached lookup returned; turn:
\* the parity of the number of cached lookups made so far
NoData == [id |-> None, cls |-> "none", f |-> NoFields]
NoRet ==
    [op |-> "", key |-> <<>>, arg |-> None, value |-> None, result |-> "",
     exc |-> "", loads |-> 0, faults |-> 0, data |-> NoData, turn |-> 0,
     tried |-> <<>>]
Faulty(r, plan) == [r EXCEPT !.faults = plan.fails]
Returned(op, key, arg, value) ==
    [NoRet EXCEPT !.op = op, !.key = key, !.arg = arg, !.value = value,
                  !.result = IF value = None THEN "None" ELSE "value"]
ReturnedBool(op, key, text) == [NoRet EXCEPT !.op = op, !.key = key, !.result = text]
Raised(op, key, arg, exc) ==
    [NoRet EXCEPT !.op = op, !.key = key, !.arg = arg, !.result = "raise", !.exc = exc]

\* ----------------------------------------------------------- MemcachedCache
\* binascii.crc32 on 32-bit words, a word being <<high half, low half>> of
\* 16 bits each
RECURSIVE Xor(_, _)
Xor(a, b) ==
    IF a = 0 THEN b
    ELSE IF b = 0 THEN a
    ELSE ((a + b) % 2) + 2 * Xor(a \div 2, b \div 2)

XorWord(a, b) == <<Xor(a[1], b[1]), Xor(a[2], b[2])>>
ShiftRight(a) == <<a[1] \div 2, (a[2] \div 2) + 32768 * (a[1] % 2)>>
AllOnes == <<65535, 65535>>
\* 0xEDB88320
Polynomial == <<60856, 33568>>

RECURSIVE CrcShift(_, _)
CrcShift(c, n) ==
    IF n = 0 THEN c
    ELSE CrcShift(IF c[2] % 2 = 1 THEN XorWord(ShiftRight(c), Polynomial)
                  ELSE ShiftRight(c),
                  n - 1)

\* the table form of the same computation: one look-up per byte
CrcTable == [byte \in 0..255 |-> CrcShift(<<0, byte>>, 8)]
ShiftRight8(a) == <<a[1] \div 256, (a[2] \div 256) + 256 * (a[1] % 256)>>

RECURSIVE CrcBytes(_, _)
CrcBytes(bytes, n) ==
    IF n = 0 THEN AllOnes
    ELSE LET c == CrcBytes(bytes, n - 1)
         IN XorWord(CrcTable[Xor(c[2] % 256, bytes[n])], ShiftRight8(c))

crc32(bytes) == XorWord(CrcBytes(bytes, Len(bytes)), AllOnes)

\* server_hash_func: (((crc32(key) & 0xffffffff) >> 16) & 0x7fff) or 1
server_hash_func(key) ==
    LET h == crc32(key)[1] % 32768 IN IF h = 0 THEN 1 ELSE h

\* str(n).encode("utf-8") of a natural number
RECURSIVE StrBytes(_)
StrBytes(n) == IF n < 10 THEN <<48 + n>> ELSE StrBytes(n \div 10) \o <<48 + (n % 10)>>

MAX_RETRIES == 5

\* MemcachedCache(backends) with n nodes, each an empty mapping
MemcachedCache(n) == [Backend("memcached") EXCEPT !.nodes = [k \in 1..n |-> NoEntries]]

\* MemcachedCache._get_backend: the index of the node (0: no node, the pair
\* (None, None))
GetBackendIgnoresRetry(b, key, retry) ==
    IF b.nodes = <<>> THEN 0 ELSE (server_hash_func(key) % Len(b.nodes)) + 1
_get_backend(b, key, retry) ==
    IF b.nodes = <<>> THEN 0
    ELSE LET serverhash == server_hash_func(key)
             rehashed == IF retry > 0
                         THEN server_hash_func(StrBytes(serverhash) \o StrBytes(retry))
                         ELSE serverhash
         IN (rehashed % Len(b.nodes)) + 1

\* how the node clients behave during one call: the first `fails` attempts
\* raise exc, the following ones succeed
NoFault == [fails |-> 0, exc |-> ""]
Fault(fails, exc) == [fails |-> fails, exc |-> exc]

\* pick_and_retry: the node the wrapped call succeeded on, or the exception
\* raised when the attempt after MAX_RETRIES retries has failed too.  Without
\* nodes the wrapped call gets (None, None) and raises AttributeError.
\* the node _get_backend gives for each number of nodes, key and retry
Keys == {<<107, 49>>, <<107, 50>>}
Routes ==
    [n \in 0..MaxNodes, key \in Keys, retry \in 0..MAX_RETRIES |->
        _get_backend(MemcachedCache(n), key, retry)]

RECURSIVE pick_and_retry(_, _, _, _)
PickAndRetryOnce(b, key, plan, retry) ==
    LET node == Routes[Len(b.nodes), key, retry]
    IN [raised |-> CASE node = 0 -> "AttributeError"
                     [] retry < plan.fails -> plan.exc
                     [] OTHER -> "",
        node |-> node, tried |-> <<node>>]
pick_and_retry(b, key, plan, retry) ==
    LET node == Routes[Len(b.nodes), key, retry]
        exc == CASE node = 0 -> "AttributeError"
                 [] retry < plan.fails -> plan.exc
                 [] OTHER -> ""
    IN CASE exc = "" -> [raised |-> "", node |-> node, tried |-> <<node>>]
         [] retry + 1 > MAX_RETRIES -> [raised |-> exc, node |-> 0, tried |-> <<node>>]
         [] OTHER -> LET next == pick_and_retry(b, key, plan, retry + 1)
                     IN [next EXCEPT !.tried = <<node>> \o @]

\* what the retrying operation (_get, _set) leaves in ret: the nodes it
\* tried, in order, and the exception that left it
Retried(r, out) == [r EXCEPT !.tried = out.tried, !.exc = out.raised]

\* pickle.dumps / pickle.loads
pickle_dumps(value) == [pickled |-> value]
pickle_loads(bytes) == bytes.pickled

\* MemcachedCache.get
MemcachedGet(b, key, plan) ==
    LET out == pick_and_retry(b, key, plan, 0)
    IN Retried(CASE out.raised = "ValidationException" -> Returned("get", key, None, None)
                 [] out.raised # "" -> Raised("get", key, None, out.raised)
                 [] ~DictHas(b.nodes[out.node], key) -> Returned("get", key, None, None)
                 [] OTHER -> Returned("get", key, None,
                                      pickle_loads(DictGet(b.nodes[out.node], key))),
               out)

\* MemcachedCache.set: what it returns, and the backend afterwards
MemcachedSet(b, key, value, plan) ==
    LET out == pick_and_retry(b, key, plan, 0)
    IN Retried(CASE out.raised = "ValidationException" \/ out.raised = "" ->
                      Returned("set", key, value, None)
                 [] OTHER -> Raised("set", key, value, out.raised),
               out)

MemcachedAfterSet(b, key, value, plan) ==
    LET out == pick_and_retry(b, key, plan, 0)
    IN IF out.raised = ""
       THEN [b EXCEPT !.nodes[out.node] = DictSet(@, key, pickle_dumps(value))]
       ELSE b

\* MemcachedCache.delete: backend.delete(key) on every node, gathered; with a
\* fault the client of node failing raises and the other deletes complete
MemcachedDelete(b, key, plan) ==
    CASE plan.fails = 0 \/ b.nodes = <<>> ->
            ReturnedBool("delete", key,
                         IF \E n \in 1..Len(b.nodes) : DictHas(b.nodes[n], key)
                         THEN "True" ELSE "False")
      [] plan.exc = "ValidationException" -> ReturnedBool("delete", key, "False")
      [] OTHER -> Raised("delete", key, None, plan.exc)

MemcachedAfterDelete(b, key, plan, failing) ==
    [b EXCEPT !.nodes = [n \in 1..Len(b.nodes) |->
                            IF plan.fails > 0 /\ n = failing THEN b.nodes[n]
                            ELSE DictDel(b.nodes[n], key)]]

\* the cache calls of a log, applied to the backend of a tier
RECURSIVE ApplyLog(_, _, _)
ApplyLog(b, tier, log) ==
    IF log = <<>> \/ b.kind = "no_cache" THEN b
    ELSE ApplyLog(IF Head(log).op = "delete" /\ Head(log).tier = tier
                  THEN BackendDelete(b, Head(log).key) ELSE b,
                  tier, Tail(log))

\* the operation of this step issued its cache calls to both tiers
Issued ==
    /\ l1' = ApplyLog(l1, 1, last'.log)
    /\ l2' = ApplyLog(l2, 2, last'.log)
    /\ UNCHANGED <<ret, run>>

\* ------------------------------------------------------------------ inputs
StoredIds(c) == {i \in Ids : store[i].cls = c}

Init ==
    /\ store = [i \in Ids |-> NoDoc]
    /\ nextId = 1
    /\ obj = NoObj
    /\ last = Quiet("init")
    /\ l1 = NoCache
    /\ l2 = NoCache
    /\ ret = NoRet
    /\ run = <<>>

\* Specification Spec: reference integrity.  The application creates Masters
\* (all with the first name), Minions and Tasks whose reference fields hold
\* None, the id of a stored Master or (master_id only) a string, saves and
\* destroys them.
FirstName == CHOOSE n \in Names : \A m \in Names : n <= m

RefCreateInputs(c) ==
    IF c = "Master"
    THEN {[NoFields EXCEPT !.name = FirstName]}
    ELSE {[NoFields EXCEPT !.master_id = m, !.other_id = t] :
            m \in {None} \cup StoredIds("Master"),
            t \in {None} \cup StoredIds("Master")}
         \cup {[NoFields EXCEPT !.master_id = n] : n \in Names}

Next ==
    \/ \E c \in UserClasses : \E a \in RefCreateInputs(c) : Create(c, a) /\ Issued
    \/ \E i \in Ids : Load(i) /\ Issued
    \/ Save(TRUE) /\ Issued
    \/ Destroy(TRUE) /\ Issued

Spec == Init /\ [][Next]_vars

\* Specification SpecCache: cache invalidation.  The application works on
\* Masters only: it creates, loads, saves, updates and destroys them, and
\* issues bulk updates and deletes by key field.
CacheCreateInputs ==
    {[NoFields EXCEPT !.name = n, !.alias = a] : n \in Names, a \in {None} \cup Names}

CacheUpdateInputs ==
    {[field |-> x, value |-> v] : x \in {"name", "alias"}, v \in Names}

CacheQueryInputs == {AllQuery} \cup {Query("name", v) : v \in Names}

NextCache ==
    \/ nextId <= MaxCacheDocs /\ \E a \in CacheCreateInputs : Create("Master", a) /\ Issued
    \/ \E i \in Ids : Load(i) /\ Issued
    \/ \E inv \in BOOLEAN : Save(inv) /\ Issued
    \/ \E patch \in CacheUpdateInputs : Update(patch) /\ Issued
    \/ Destroy(TRUE) /\ Issued
    \/ \E q \in CacheQueryInputs : DestroyMany("Master", q) /\ Issued
    \/ \E q \in CacheQueryInputs : \E patch \in CacheUpdateInputs :
          UpdateMany("Master", q, patch) /\ Issued

SpecCache == Init /\ [][NextCache]_vars


\* ------------------------------------------------------ lifecycle hooks
\* descriptor __set__: obj.__dict__[name] = value
SetAttr(patch) ==
    /\ obj.cls \in UserClasses
    /\ patch.field \in FieldsOf[obj.cls] \ {"id"}
    /\ obj' = [obj EXCEPT !.f[patch.field] = patch.value]
    /\ last' = Quiet("setattr")
    /\ UNCHANGED <<store, nextId>>

\* a lifecycle hook of instance o was awaited
HookEv(o, name) == Ev("hook", 0, MethodKey(o.cls, o.id, name))

Hook(o, skip_callback, name) == IF skip_callback THEN <<>> ELSE <<HookEv(o, name)>>

\* BaseModel.is_new
IsNewNever(o) == FALSE
is_new(o) == o.id = None

\* _after_save(is_new) of instance o was awaited
AfterSave(o, skip_callback, new) ==
    IF skip_callback THEN <<>>
    ELSE <<Ev("hook", 0, <<collection(o.cls), o.id, "_after_save", new>>)>>

\* the hooks a model type may override to raise DoNotSave
Vetoes == {"", "_before_validation", "_before_save"}

\* the calls of a save() that stops at stage ("_before_validation",
\* "validate_all" or "_before_save"): the hooks awaited up to that stage
SaveStopLogInvalidatesFirst(o, invalidate_cache, skip_callback, stage) ==
    (IF invalidate_cache THEN invalidate(o) ELSE <<>>)
    \o Hook(o, skip_callback, "_before_validation")
    \o (IF stage = "_before_save" THEN Hook(o, skip_callback, "_before_save") ELSE <<>>)

SaveStopLog(o, invalidate_cache, skip_callback, stage) ==
    Hook(o, skip_callback, "_before_validation")
    \o (IF stage = "_before_save" THEN Hook(o, skip_callback, "_before_save") ELSE <<>>)

\* BaseModel.save(skip_callback, invalidate_cache) of a type whose hook veto
\* raises DoNotSave ("" for none)
SaveCb(invalidate_cache, skip_callback, veto) ==
    /\ obj.cls \in UserClasses
    /\ LET out == SaveOutcome(store, obj, nextId, invalidate_cache)
           stage == CASE ~skip_callback /\ veto = "_before_validation" -> veto
                      [] out.res # "ok" -> "validate_all"
                      [] ~skip_callback /\ veto = "_before_save" -> veto
                      [] OTHER -> ""
       IN IF stage # ""
          THEN /\ last' = Result("save", obj, invalidate_cache,
                                 IF stage = "validate_all" THEN out.res ELSE "DoNotSave",
                                 IF stage = "validate_all" THEN out.names ELSE {},
                                 IF stage = "validate_all" THEN out.field ELSE "",
                                 SaveStopLog(obj, invalidate_cache, skip_callback, stage))
               /\ UNCHANGED <<store, nextId, obj>>
          ELSE /\ out.inserted => nextId \in Ids
               /\ store' = out.store
               /\ obj' = out.obj
               /\ nextId' = IF out.inserted THEN nextId + 1 ELSE nextId
               /\ last' = Result("save", obj, invalidate_cache, "ok", {}, "",
                                 Hook(obj, skip_callback, "_before_validation")
                                 \o Hook(obj, skip_callback, "_before_save")
                                 \o out.log
                                 \o AfterSave(out.obj, skip_callback, is_new(obj)))

\* the calls of a destroy() that succeeds; before: the calls of _before_delete
DestroyLogDeletesFirst(o, invalidate_cache, skip_callback, before) ==
    before
    \o <<DbEv("delete_one", o.cls, o.id)>>
    \o (IF invalidate_cache THEN invalidate(o) ELSE <<>>)
    \o Hook(o, skip_callback, "_after_delete")

DestroyLog(o, invalidate_cache, skip_callback, before) ==
    before
    \o (IF invalidate_cache THEN invalidate(o) ELSE <<>>)
    \o <<DbEv("delete_one", o.cls, o.id)>>
    \o Hook(o, skip_callback, "_after_delete")

\* BaseModel.destroy(skip_callback, invalidate_cache); the default
\* _before_delete hook runs _check_refs_on_destroy
DestroyCb(invalidate_cache, skip_callback) ==
    /\ obj.cls \in UserClasses
    /\ IF is_new(obj)
       THEN /\ last' = Result("destroy", obj, invalidate_cache, "new", {}, "", <<>>)
            /\ UNCHANGED <<store, nextId, obj>>
       ELSE \E order \in IterationOrders[obj.cls] :
              LET acc == IF skip_callback
                         THEN [store |-> store, log |-> <<>>, ref_classes |-> {}]
                         ELSE _check_refs_on_destroy(store, obj, order)
                  before == Hook(obj, skip_callback, "_before_delete") \o acc.log
              IN IF acc.ref_classes # {}
                 THEN /\ store' = acc.store
                      /\ last' = Result("destroy", obj, invalidate_cache,
                                        "ObjectHasReferences", acc.ref_classes, "",
                                        before)
                      /\ UNCHANGED <<nextId, obj>>
                 ELSE /\ store' = [i \in Ids |->
                                     IF i = obj.id /\ acc.store[i].cls = obj.cls
                                     THEN NoDoc ELSE acc.store[i]]
                      /\ obj' = [obj EXCEPT !.id = None]
                      /\ last' = Result("destroy", obj, invalidate_cache, "ok", {}, "",
                                        DestroyLog(obj, invalidate_cache, skip_callback,
                                                   before))
                      /\ UNCHANGED nextId

\* Specification SpecHooks: the life cycle of one instance.  The application
\* creates Masters and Minions (whose master_id may name no stored Master),
\* assigns fields, and saves and destroys with every combination of
\* skip_callback and invalidate_cache, on types whose hooks raise DoNotSave
\* or do nothing.
HookCreateInputs(c) ==
    IF c = "Master"
    THEN {[NoFields EXCEPT !.name = FirstName]}
    ELSE {[NoFields EXCEPT !.master_id = m] : m \in {None} \cup Ids}

HookPatches(c) ==
    IF c = "Master"
    THEN {[field |-> "name", value |-> n] : n \in Names}
    ELSE {[field |-> "master_id", value |-> m] : m \in {None} \cup Ids}

NextHooks ==
    \/ nextId <= MaxCacheDocs
          /\ \E c \in {"Master", "Minion"} : \E a \in HookCreateInputs(c) : Create(c, a) /\ Issued
    \/ \E i \in Ids : Load(i) /\ Issued
    \/ \E patch \in HookPatches(obj.cls) : SetAttr(patch) /\ Issued
    \/ \E inv, skip \in BOOLEAN : \E veto \in Vetoes : SaveCb(inv, skip, veto) /\ Issued
    \/ \E inv, skip \in BOOLEAN : DestroyCb(inv, skip) /\ Issued

SpecHooks == Init /\ [][NextHooks]_vars

\* -------------------------------------------------- conditional update
\* Shard.find_and_update_obj(obj, update, when): find_one_and_update with the
\* query {"_id": obj.id} extended by when and return_document=AFTER; the
\* updated document, or None when no document matches.  update is
\* {"$set": {patch.field: patch.value}}, when a query on one field or {}.
FindAndUpdateMatches(st, o, when) == Matches(st, o.cls, when, o.id)

find_and_update_obj(st, o, patch, when) ==
    IF FindAndUpdateMatches(st, o, when)
    THEN [st EXCEPT ![o.id].f[patch.field] = patch.value]
    ELSE st

\* the calls of db_update on a saved record: the store call, then invalidate()
\* if the document was updated and invalidate_cache is set
DbUpdateInvalidatesAlways(o, matched, invalidate_cache) ==
    <<DbEv("find_one_and_update", o.cls, o.id)>>
    \o (IF invalidate_cache THEN invalidate(o) ELSE <<>>)

DbUpdateLog(o, matched, invalidate_cache) ==
    <<DbEv("find_one_and_update", o.cls, o.id)>>
    \o (IF invalidate_cache /\ matched THEN invalidate(o) ELSE <<>>)

\* BaseModel._reload_from_model(tmp): every field is assigned from tmp; the
\* initial state is left as it was
_reload_from_model(o, tmp) == [o EXCEPT !.f = tmp.f]

\* StorableModel._refetch_from_db: find_one({"_id": self.id})
_refetch_from_db(st, o) ==
    IF st[o.id].cls = o.cls THEN Ctor(o.cls, o.id, st[o.id].f) ELSE NoObj

\* StorableModel.db_update(update, when, reload=..., invalidate_cache=...),
\* wrapped by save_required
DbUpdate(patch, when, reload, invalidate_cache) ==
    /\ obj.cls \in UserClasses
    /\ patch.field \in FieldsOf[obj.cls] \ {"id"}
    /\ UNCHANGED nextId
    /\ IF is_new(obj)
       THEN /\ last' = Result("db_update", obj, invalidate_cache,
                              "ObjectSaveRequired", {}, "", <<>>)
                       @@ [update |-> patch, when |-> when, reload |-> reload]
            /\ UNCHANGED <<store, obj>>
       ELSE LET matched == FindAndUpdateMatches(store, obj, when)
                new_data == find_and_update_obj(store, obj, patch, when)[obj.id]
            IN /\ store' = find_and_update_obj(store, obj, patch, when)
               /\ obj' = IF reload /\ matched
                         THEN _reload_from_model(obj, Ctor(obj.cls, obj.id, new_data.f))
                         ELSE obj
               /\ last' = Result("db_update", obj, invalidate_cache,
                                 IF matched THEN "True" ELSE "False", {}, "",
                                 DbUpdateLog(obj, matched, invalidate_cache))
                          @@ [update |-> patch, when |-> when, reload |-> reload]

\* StorableModel.reload()
Reload ==
    /\ obj.cls \in UserClasses
    /\ UNCHANGED <<store, nextId>>
    /\ IF is_new(obj)
       THEN /\ last' = Result("reload", obj, FALSE, "new", {}, "", <<>>)
            /\ UNCHANGED obj
       ELSE LET tmp == _refetch_from_db(store, obj)
            IN IF tmp = NoObj
               THEN /\ last' = Result("reload", obj, FALSE, "ModelDestroyed", {}, "",
                                      <<DbEv("find_one", obj.cls, obj.id)>>)
                    /\ UNCHANGED obj
               ELSE /\ last' = Result("reload", obj, FALSE, "ok", {}, "",
                                      <<DbEv("find_one", obj.cls, obj.id)>>)
                    /\ obj' = _reload_from_model(obj, tmp)

\* Specification SpecDbUpdate: the application creates, loads and saves
\* Masters, updates them in the store with db_update, reloads them, and
\* deletes documents with destroy_many while it still holds a record of one.
DbUpdateInputs == {[field |-> "alias", value |-> v] : v \in Names}
DbUpdateWhens == {AllQuery} \cup {Query("alias", v) : v \in Names}

NextDbUpdate ==
    \/ nextId <= MaxCacheDocs /\ \E a \in CacheCreateInputs : Create("Master", a) /\ Issued
    \/ \E i \in Ids : Load(i) /\ Issued
    \/ Save(TRUE) /\ Issued
    \/ \E patch \in DbUpdateInputs : \E when \in DbUpdateWhens :
          \E reload, inv \in BOOLEAN : DbUpdate(patch, when, reload, inv) /\ Issued
    \/ Reload /\ Issued
    \/ \E q \in CacheQueryInputs : DestroyMany("Master", q) /\ Issued

SpecDbUpdate == Init /\ [][NextDbUpdate]_vars

\* ------------------------------------------------------ calls of a backend
\* Specification SpecBackend: one backend (held in l1) of any engine, called
\* directly.  Keys are the UTF-8 bytes of "k1" and "k2"; a call of the
\* MemcachedCache comes with the behaviour of the node clients during it.
BackendKeys == Keys
BackendValues == {None, 1, 2}
TransportErrors == {"ValidationException", "ConnectionRefusedError"}

Engines ==
    {NoCache, SimpleCache, RequestLocalCache(TRUE), RequestLocalCache(FALSE), TraceCache}
    \cup {MemcachedCache(n) : n \in 0..MaxNodes}

Faults(b) ==
    IF b.kind = "memcached"
    THEN {NoFault} \cup {Fault(n, e) : n \in 1..(MAX_RETRIES + 1), e \in TransportErrors}
    ELSE {NoFault}

InitBackend ==
    /\ store = [i \in Ids |-> NoDoc]
    /\ nextId = 1
    /\ obj = NoObj
    /\ last = Quiet("init")
    /\ l1 \in Engines
    /\ l2 = NoCache
    /\ ret = NoRet
    /\ run = <<>>

\* TraceCache.calls is kept to MaxCalls entries
Recordable(b) == b.kind = "trace" => Len(b.calls) < MaxCalls

CallGet(key, plan) ==
    /\ Recordable(l1)
    /\ ret' = IF l1.kind = "memcached" THEN Faulty(MemcachedGet(l1, key, plan), plan)
              ELSE Returned("get", key, None, BackendGet(l1, key))
    /\ l1' = Traced(l1, "get", key, None)
    /\ UNCHANGED <<store, nextId, obj, last, l2, run>>

CallHas(key, plan) ==
    /\ Recordable(l1)
    /\ ret' = IF l1.kind = "memcached"
              THEN LET got == MemcachedGet(l1, key, plan)
                   IN Faulty(IF got.result = "raise" THEN [got EXCEPT !.op = "has"]
                             ELSE ReturnedBool("has", key,
                                               IF got.value # None THEN "True"
                                               ELSE "False"),
                             plan)
              ELSE ReturnedBool("has", key, IF BackendHas(l1, key) THEN "True" ELSE "False")
    /\ l1' = Traced(l1, "has", key, None)
    /\ UNCHANGED <<store, nextId, obj, last, l2, run>>

CallSet(key, value, plan) ==
    /\ Recordable(l1)
    /\ ret' = IF l1.kind = "memcached" THEN Faulty(MemcachedSet(l1, key, value, plan), plan)
              ELSE Returned("set", key, value, None)
    /\ l1' = IF l1.kind = "memcached" THEN MemcachedAfterSet(l1, key, value, plan)
             ELSE BackendSet(l1, key, value)
    /\ UNCHANGED <<store, nextId, obj, last, l2, run>>

CallDelete(key, plan, failing) ==
    /\ Recordable(l1)
    /\ ret' = IF l1.kind = "memcached" THEN Faulty(MemcachedDelete(l1, key, plan), plan)
              ELSE ReturnedBool("delete", key, BackendDeleteResult(l1, key))
    /\ l1' = IF l1.kind = "memcached" THEN MemcachedAfterDelete(l1, key, plan, failing)
             ELSE BackendDelete(l1, key)
    /\ UNCHANGED <<store, nextId, obj, last, l2, run>>

\* ctxvar.set({}) at the start of a request, ctxvar.reset(token) at its end
EnterScope ==
    /\ l1.kind = "request_local"
    /\ ~l1.scope
    /\ l1' = RequestLocalCache(TRUE)
    /\ ret' = NoRet
    /\ UNCHANGED <<store, nextId, obj, last, l2, run>>

LeaveScope ==
    /\ l1.kind = "request_local"
    /\ l1.scope
    /\ l1' = RequestLocalCache(FALSE)
    /\ ret' = NoRet
    /\ UNCHANGED <<store, nextId, obj, last, l2, run>>

NextBackend ==
    \/ \E key \in BackendKeys : \E plan \in Faults(l1) : CallGet(key, plan)
    \/ \E key \in BackendKeys : \E plan \in Faults(l1) : CallHas(key, plan)
    \/ \E key \in BackendKeys : \E value \in BackendValues : \E plan \in Faults(l1) :
          CallSet(key, value, plan)
    \/ \E key \in BackendKeys : \E plan \in Faults(l1) :
          \E failing \in 1..(IF plan.fails > 0 THEN Len(l1.nodes) ELSE 1) :
             CallDelete(key, plan, failing)
    \/ EnterScope
    \/ LeaveScope

SpecBackend == InitBackend /\ [][NextBackend]_vars

\* ------------------------------------------------------- cached lookups
\* obj.to_dict(include_restricted=True, convert_id=True)
ToDictWithoutFields(o) == [id |-> o.id, cls |-> o.cls, f |-> NoFields]
to_dict(o) == [id |-> o.id, cls |-> o.cls, f |-> o.f]

\* cls.find_one(query): the first matching document, None when there is none
find_one(st, c, q) ==
    LET found == Ascending(FindIds(st, c, q))
    IN IF found = <<>> THEN NoObj ELSE Ctor(c, found[1], st[found[1]].f)

\* what a cached lookup did: the two backends afterwards, the data or value
\* it returned, how often it awaited the loader, and its calls in order
Looked(b1, b2, data, value, loads, log) ==
    [l1 |-> b1, l2 |-> b2, data |-> data, value |-> value, loads |-> loads, log |-> log]

\* StorableModel._cache_get with getter = partial(cls.get, expression, None)
CacheGetLoadsAlways(b1, b2, st, c, expression) ==
    LET cache_key == EntityKey(c, expression)
        o == find_one(st, c, _resolve_get_query(c, expression))
    IN Looked(b1, b2, IF o.id = None THEN NoData ELSE to_dict(o), o.id, 1,
              <<DbEv("find_one", c, expression)>>)
_cache_get(b1, b2, st, c, expression) ==
    LET cache_key == EntityKey(c, expression)
    IN IF BackendHas(b1, cache_key)
       THEN LET data == BackendGet(b1, cache_key)
            IN Looked(b1, b2, data, data.id, 0,
                      <<Ev("has", 1, cache_key), Ev("get", 1, cache_key)>>)
       ELSE IF BackendHas(b2, cache_key)
       THEN LET data == BackendGet(b2, cache_key)
            IN Looked(BackendSet(b1, cache_key, data), b2, data, data.id, 0,
                      <<Ev("has", 1, cache_key), Ev("has", 2, cache_key),
                        Ev("get", 2, cache_key), Ev("set", 1, cache_key)>>)
       ELSE LET o == find_one(st, c, _resolve_get_query(c, expression))
                miss == <<Ev("has", 1, cache_key), Ev("has", 2, cache_key),
                          DbEv("find_one", c, expression)>>
            IN IF o.id = None
               THEN Looked(b1, b2, NoData, None, 1, miss)
               ELSE Looked(BackendSet(b1, cache_key, to_dict(o)),
                           BackendSet(b2, cache_key, to_dict(o)),
                           to_dict(o), o.id, 1,
                           miss \o <<Ev("set", 2, cache_key), Ev("set", 1, cache_key)>>)

\* the original method under model_cached_method: Master.full_name returns
\* the alias, which is None when the record has none
orig_func(o, method) == o.f.alias

\* the wrapper model_cached_method installs
cached_method(b1, b2, o, method) ==
    LET cache_key == MethodKey(o.cls, o.id, method)
    IN IF BackendGet(b1, cache_key) # None
       THEN Looked(b1, b2, NoData, BackendGet(b1, cache_key), 0,
                   <<Ev("get", 1, cache_key)>>)
       ELSE IF BackendGet(b2, cache_key) # None
       THEN Looked(BackendSet(b1, cache_key, BackendGet(b2, cache_key)), b2, NoData,
                   BackendGet(b2, cache_key), 0,
                   <<Ev("get", 1, cache_key), Ev("get", 2, cache_key),
                     Ev("set", 1, cache_key)>>)
       ELSE Looked(BackendSet(b1, cache_key, orig_func(o, method)),
                   BackendSet(b2, cache_key, orig_func(o, method)),
                   NoData, orig_func(o, method), 1,
                   <<Ev("get", 1, cache_key), Ev("get", 2, cache_key),
                     Ev("call", 0, cache_key),
                     Ev("set", 2, cache_key), Ev("set", 1, cache_key)>>)

\* what a cached lookup leaves in ret
LookedUp(op, key, arg, out) ==
    [NoRet EXCEPT !.op = op, !.key = key, !.arg = arg, !.value = out.value,
                  !.result = IF out.value = None THEN "None" ELSE "value",
                  !.loads = out.loads, !.data = out.data, !.turn = 1 - ret.turn]

\* cls.cache_get(expression): the application holds the instance returned
CacheGet(c, expression) ==
    IF expression = None
    THEN /\ ret' = LookedUp("cache_get", <<>>, None, Looked(l1, l2, NoData, None, 0, <<>>))
         /\ last' = Quiet("cache_get")
         /\ UNCHANGED <<store, nextId, obj, l1, l2, run>>
    ELSE LET out == _cache_get(l1, l2, store, c, expression)
         IN /\ l1' = out.l1
            /\ l2' = out.l2
            /\ ret' = LookedUp("cache_get", EntityKey(c, expression), expression, out)
            /\ obj' = IF out.value = None THEN obj
                      ELSE Ctor(c, out.data.id, out.data.f)
            /\ last' = [Quiet("cache_get") EXCEPT !.cls = c, !.log = out.log]
            /\ UNCHANGED <<store, nextId, run>>

\* await obj.method() for a memoized method of the instance
CallCachedMethod(method) ==
    /\ obj.cls \in UserClasses
    /\ method \in CachedMethodsOf[obj.cls]
    /\ LET out == cached_method(l1, l2, obj, method)
       IN /\ l1' = out.l1
          /\ l2' = out.l2
          /\ ret' = LookedUp("cached_method", MethodKey(obj.cls, obj.id, method),
                             obj.id, out)
          /\ last' = [Quiet("cached_method") EXCEPT !.cls = obj.cls, !.id = obj.id,
                                                    !.log = out.log]
          /\ UNCHANGED <<store, nextId, obj, run>>

\* a new request: the scope-local L1 starts from an empty mapping
NewRequest ==
    /\ l1.kind = "request_local"
    /\ l1.data # NoEntries
    /\ l1' = RequestLocalCache(TRUE)
    /\ last' = Quiet("request")
    /\ UNCHANGED <<store, nextId, obj, l2, ret, run>>

\* Specification SpecLookup: cached reads.  L1 is the NoCache or a
\* RequestLocalCache inside a scope, L2 the NoCache or the SimpleCache; the
\* application creates, loads, updates and destroys Masters, each with the
\* first name and with or without an alias, deletes them all with
\* destroy_all, reads them through cache_get and calls their memoized method.
LookupAliases == {None, MaxId + MaxNames}
LookupCreateInputs == {[NoFields EXCEPT !.name = FirstName, !.alias = a] : a \in LookupAliases}
LookupUpdateInputs == {[field |-> "alias", value |-> a] : a \in LookupAliases}
LookupExpressions == {None, FirstName} \cup LookupAliases \cup 1..MaxLookupDocs

InitLookup ==
    /\ store = [i \in Ids |-> NoDoc]
    /\ nextId = 1
    /\ obj = NoObj
    /\ last = Quiet("init")
    /\ l1 \in {NoCache, RequestLocalCache(TRUE)}
    /\ l2 \in {NoCache, SimpleCache}
    /\ ret = NoRet
    /\ run = <<>>

NextLookup ==
    \/ nextId <= MaxLookupDocs /\ \E a \in LookupCreateInputs : Create("Master", a) /\ Issued
    \/ \E i \in Ids : Load(i) /\ Issued
    \/ nextId <= MaxLookupDocs /\ Save(TRUE) /\ Issued
    \/ \E patch \in LookupUpdateInputs : obj.id # None /\ Update(patch) /\ Issued
    \/ Destroy(TRUE) /\ Issued
    \/ DestroyAll("Master") /\ Issued
    \/ \E expression \in LookupExpressions : CacheGet("Master", expression)
    \/ \E method \in {"full_name"} : obj.id # None /\ CallCachedMethod(method)
    \/ \E method \in {"full_name"} : is_new(obj) /\ CallCachedMethod(method)
    \/ NewRequest

SpecLookup == InitLookup /\ [][NextLookup]_vars

\* ----------------------------------------- class statements in any order
\* Specification SpecTypes: the application's class statements run one by one,
\* in any order in which the names a class statement uses (its base, the
\* reference_model arguments of its fields) are bound.  run holds the classes
\* defined so far and the class attributes they have built.
TypeNames == {"Master", "SubMaster", "Worker", "Minion", "Task", "Agent", "Model"}
AllTypes == LibClasses \cup TypeNames

\* the class attributes once the library is imported: MetaModel's body has
\* run, then the class statements of BaseModel and StorableModel
ImportedAttrs ==
    DefineAll([cm |-> [c \in AllTypes |-> IF c = "MetaModel" THEN NoneAttr ELSE NoAttr],
               refs |-> [c \in AllTypes |-> IF c = "MetaModel" THEN NoneAttr ELSE NoAttr]],
              <<"BaseModel", "StorableModel">>)

Defined == SeqToSet(run.defined)

\* the names the class statement of c reads
Needs(c) ==
    ({Parent(c)} \cup {RefOf(c, f).reference_model : f \in RefFields(c)})
        \ (LibClasses \cup {""})

InitTypes ==
    /\ store = [i \in Ids |-> NoDoc]
    /\ nextId = 1
    /\ obj = NoObj
    /\ last = Quiet("init")
    /\ l1 = NoCache
    /\ l2 = NoCache
    /\ ret = NoRet
    /\ run = [defined |-> <<>>, attrs |-> ImportedAttrs]

\* class c(...): the body, then MetaModel.__init_subclass__
DefineType(c) ==
    /\ c \notin Defined
    /\ Needs(c) \subseteq Defined
    /\ run' = [defined |-> Append(run.defined, c),
               attrs |-> DefineClass(run.attrs, c)]
    /\ UNCHANGED <<store, nextId, obj, last, l1, l2, ret>>

NextTypes == \E c \in TypeNames : DefineType(c)

SpecTypes == InitTypes /\ [][NextTypes]_vars

\* self._references as BaseModel._check_refs_on_destroy / _before_delete of a
\* record of type c iterate it
EvaluatedOnDestroy(c) == run.attrs.refs[Holder(run.attrs.refs, c)].s

\* ----------------------------------------- a record with a mutable field
\* Specification SpecSnapshot: the Model of tests/test_base_model.py
\* (test_initial_state_immutability),
\*
\*   class Model(BaseModel):
\*       a = ListField(default=list, max_length=max_length)
\*
\* (the test sets no max_length; it is set here so that a save can fail).
\* The application creates a Model, mutates the list of its field in place,
\* assigns a new list to the field and saves.  obj.a and obj.init.a are the
\* list objects the field and the snapshot hold; obj.heap is their content.
ListItems == {1, 2}
Lists == UNION {[1..n -> ListItems] : n \in 0..MaxListLen}
max_length == MaxListLen - 1
Refs == 1..3

NoHeap == [r \in Refs |-> <<>>]

\* a new list object: one that neither the field nor the snapshot holds
Fresh(o) == CHOOSE r \in Refs : r \notin {o.a, o.init.a}

\* list objects nothing refers to are gone
Collect(o) ==
    [o EXCEPT !.heap = [r \in Refs |-> IF r \in {o.a, o.init.a} THEN o.heap[r] ELSE <<>>]]

\* getattr(self, "a") / self._initial_state["a"]
Field(o) == o.heap[o.a]
Snapshot(o) == o.heap[o.init.a]

\* BaseModel._set_initial_state: {field: deepcopy(getattr(self, field))}
SetInitialStateShared(o) == Collect([o EXCEPT !.init = [id |-> o.id, a |-> o.a]])

SetInitialState(o) ==
    LET copy == Fresh(o)
    IN Collect([o EXCEPT !.heap[copy] = o.heap[o.a],
                         !.init = [id |-> o.id, a |-> copy]])

\* BaseModel.is_modified
is_modified(o) == o.id # o.init.id \/ Field(o) # Snapshot(o)

\* BaseModel.__init__: setattr for every field, then _set_initial_state
NewModel(list) ==
    SetInitialState([cls |-> "Model", id |-> None, a |-> 1,
                     init |-> [id |-> None, a |-> 1],
                     heap |-> [NoHeap EXCEPT ![1] = list]])

InitSnapshot ==
    /\ store = [i \in Ids |-> NoDoc]
    /\ nextId = 1
    /\ obj = NoObj
    /\ last = Quiet("init")
    /\ l1 = NoCache
    /\ l2 = NoCache
    /\ ret = NoRet
    /\ run = <<>>

\* m = Model.create(a=list)
CreateModel(list) ==
    /\ obj' = NewModel(list)
    /\ last' = Quiet("create")
    /\ UNCHANGED <<store, nextId, l1, l2, ret, run>>

\* m.a.append(v)
AppendItem(v) ==
    /\ obj.cls = "Model"
    /\ Len(Field(obj)) < MaxListLen
    /\ obj' = [obj EXCEPT !.heap[obj.a] = Append(@, v)]
    /\ last' = Quiet("append")
    /\ UNCHANGED <<store, nextId, l1, l2, ret, run>>

\* m.a.pop()
PopItem ==
    /\ obj.cls = "Model"
    /\ Field(obj) # <<>>
    /\ obj' = [obj EXCEPT !.heap[obj.a] = SubSeq(@, 1, Len(@) - 1)]
    /\ last' = Quiet("pop")
    /\ UNCHANGED <<store, nextId, l1, l2, ret, run>>

\* m.a = list
AssignList(list) ==
    /\ obj.cls = "Model"
    /\ obj' = Collect([obj EXCEPT !.a = Fresh(obj), !.heap[Fresh(obj)] = list])
    /\ last' = Quiet("assign")
    /\ UNCHANGED <<store, nextId, l1, l2, ret, run>>

\* await m.save(): validate_all (ListField.validate), BaseModel._save_to_db
\* (which does nothing), _set_initial_state
SaveModel ==
    /\ obj.cls = "Model"
    /\ IF Len(Field(obj)) > max_length
       THEN /\ obj' = obj
            /\ last' = [Quiet("save") EXCEPT !.res = "ValidationError"]
       ELSE /\ obj' = SetInitialState(obj)
            /\ last' = Quiet("save")
    /\ UNCHANGED <<store, nextId, l1, l2, ret, run>>

NextSnapshot ==
    \/ \E list \in Lists : CreateModel(list)
    \/ \E v \in ListItems : AppendItem(v)
    \/ PopItem
    \/ \E list \in Lists : AssignList(list)
    \/ SaveModel

SpecSnapshot == InitSnapshot /\ [][NextSnapshot]_vars

\* --------------------------------------------------------------- sub-types
\* The types of tests/test_submodel.py, stored in the one collection "test":
\*
\*   class TestBaseModel(StorableSubmodel):
\*       COLLECTION = "test"; field1 = Field(); field2 = Field()
\*   class Submodel1(TestBaseModel): SUBMODEL = "submodel1"
\*   class Submodel2(TestBaseModel): SUBMODEL = "submodel2"
\*
\* A document of the collection is [cls |-> "TestBaseModel", f |-> its
\* fields]; f.submodel = "" stands for a document without the key "submodel"
\* (and SUBMODEL(c) = "" for SUBMODEL = None).
SubmodelBase == "TestBaseModel"
SubTypes == {"Submodel1", "Submodel2"}
SubmodelTypes == {SubmodelBase} \cup SubTypes

SUBMODEL(c) ==
    CASE c = "Submodel1" -> "submodel1"
      [] c = "Submodel2" -> "submodel2"
      [] OTHER -> ""

FieldValues == {1, 2}

SubDoc(d, v1, v2) ==
    [cls |-> SubmodelBase, f |-> [submodel |-> d, field1 |-> v1, field2 |-> v2]]

\* a query {field: value} ({} when field is ""), with the "submodel" entry
\* _preprocess_query adds
SubQuery(field, value) == [field |-> field, value |-> value, submodel |-> ""]

\* StorableSubmodel._preprocess_query
PreprocessQueryUnfiltered(c, q) == q

_preprocess_query(c, q) ==
    IF SUBMODEL(c) # "" THEN [q EXCEPT !.submodel = SUBMODEL(c)] ELSE q

\* the documents of the collection a query matches
SubMatches(st, q, i) ==
    /\ st[i].cls = SubmodelBase
    /\ q.field = "_id" => q.value = i
    /\ q.field \in {"field1", "field2"} => st[i].f[q.field] = q.value
    /\ q.submodel # "" => st[i].f.submodel = q.submodel

Cursor(st, q) == {i \in Ids : SubMatches(st, q, i)}

\* what a constructor call gives: the exception it raises, or the record
Built(raised, o) == [raised |-> raised, obj |-> o]

\* StorableSubmodel._check_submodel
_check_submodel(c, submodel) ==
    IF submodel # SUBMODEL(c) THEN "WrongSubmodel" ELSE ""

\* StorableSubmodel.__init__(attrs); id = None when attrs has no "_id"
__init__(c, id, f) ==
    IF id = None
    THEN CASE SUBMODEL(c) = "" -> Built("IntegrityError", NoObj)
           [] f.submodel # "" -> Built("IntegrityError", NoObj)
           [] OTHER -> Built("", [cls |-> c, id |-> id,
                                  f |-> [f EXCEPT !.submodel = SUBMODEL(c)]])
    ELSE CASE f.submodel = "" -> Built("MissingSubmodel", NoObj)
           [] _check_submodel(c, f.submodel) # "" ->
                  Built(_check_submodel(c, f.submodel), NoObj)
           [] OTHER -> Built("", [cls |-> c, id |-> id, f |-> f])

\* cls.__submodel_loaders__, a set of <<name, ctor>>: the attribute is set on
\* the base type by register_submodel and read through it by the sub-types
LoaderNames(loaders) == {l[1] : l \in loaders}
LoaderOf(loaders, name) == (CHOOSE l \in loaders : l[1] = name)[2]

\* StorableSubmodel._ctor
_ctor(loaders, c, id, f) ==
    CASE f.submodel = "" -> Built("MissingSubmodel", NoObj)
      [] loaders = {} -> __init__(c, id, f)
      [] f.submodel \notin LoaderNames(loaders) -> Built("UnknownSubmodel", NoObj)
      [] OTHER -> __init__(LoaderOf(loaders, f.submodel), id, f)

\* cls.find(query).all(): the documents the preprocessed query matches, each
\* passed to _ctor in cursor order; the first exception ends the call
FindAll(loaders, st, c, q) ==
    LET ids == Cursor(st, _preprocess_query(c, q))
        bad == {i \in ids : _ctor(loaders, c, i, st[i].f).raised # ""}
    IN IF bad = {} THEN [raised |-> "", ids |-> ids]
       ELSE [raised |-> _ctor(loaders, c, CHOOSE i \in bad : \A j \in bad : i <= j,
                              st[CHOOSE i \in bad : \A j \in bad : i <= j].f).raised,
             ids |-> {}]

\* what an operation on the sub-types leaves in `last`
SubResult(op, c, res, ids, q, id) ==
    [op |-> op, cls |-> c, res |-> res, ids |-> ids, query |-> q, id |-> id,
     log |-> <<>>]

\* Specification SpecSubmodel: the application registers the sub-types with
\* the base type, saves new records, and finds, gets, constructs, updates and
\* destroys records through the base type and the sub-types; other writers
\* of the collection insert documents without or with another discriminator.
\* run holds TestBaseModel.__submodel_loaders__.
InitSubmodel ==
    /\ store = [i \in Ids |-> NoDoc]
    /\ nextId = 1
    /\ obj = NoObj
    /\ last = SubResult("init", "none", "ok", {}, SubQuery("", None), None)
    /\ l1 = NoCache
    /\ l2 = NoCache
    /\ ret = NoRet
    /\ run = {}

\* TestBaseModel.register_submodel(c.SUBMODEL, c)
RegisterSubmodel(c) ==
    /\ IF SUBMODEL(c) \in LoaderNames(run)
       THEN /\ last' = SubResult("register_submodel", c, "IntegrityError", {},
                                 SubQuery("", None), None)
            /\ run' = run
       ELSE /\ last' = SubResult("register_submodel", c, "ok", {},
                                 SubQuery("", None), None)
            /\ run' = run \cup {<<SUBMODEL(c), c>>}
    /\ UNCHANGED <<store, nextId, obj, l1, l2, ret>>

\* o = c({"field1": v, "field2": 1}); await o.save()
SaveSubmodel(c, v) ==
    /\ nextId <= MaxSubDocs
    /\ LET new == __init__(c, None, SubDoc("", v, 1).f)
       IN IF new.raised # ""
          THEN /\ last' = SubResult("save", c, new.raised, {}, SubQuery("", None), None)
               /\ UNCHANGED <<store, nextId, obj>>
          ELSE /\ store' = [store EXCEPT ![nextId] = [cls |-> SubmodelBase, f |-> new.obj.f]]
               /\ nextId' = nextId + 1
               /\ obj' = [new.obj EXCEPT !.id = nextId]
               /\ last' = SubResult("save", c, "ok", {nextId}, SubQuery("", None), nextId)
    /\ UNCHANGED <<l1, l2, ret, run>>

\* ctx.db.meta.conn.test.insert_one(...) by a writer that sets no submodel
\* or one that no type of the program has
InsertDocument(d, v) ==
    /\ nextId <= MaxSubDocs
    /\ store' = [store EXCEPT ![nextId] = SubDoc(d, v, 1)]
    /\ nextId' = nextId + 1
    /\ last' = SubResult("insert_one", "none", "ok", {nextId}, SubQuery("", None), nextId)
    /\ UNCHANGED <<obj, l1, l2, ret, run>>

\* o = await c.get(i): find_one(_preprocess_query({"_id": i})), then _ctor
GetSubmodel(c, i) ==
    /\ LET q == _preprocess_query(c, SubQuery("_id", i))
           out == IF Cursor(store, q) = {} THEN Built("", NoObj)
                  ELSE _ctor(run, c, i, store[i].f)
       IN /\ last' = SubResult("get", c, IF out.raised # "" THEN out.raised ELSE "ok",
                               IF out.obj # NoObj THEN {i} ELSE {}, q, i)
          /\ obj' = IF out.raised # "" THEN obj ELSE out.obj
    /\ UNCHANGED <<store, nextId, l1, l2, ret, run>>

\* o = c(data) for the stored document data with _id i
ConstructSubmodel(c, i) ==
    /\ store[i].cls = SubmodelBase
    /\ LET out == __init__(c, i, store[i].f)
       IN /\ last' = SubResult("construct", c, IF out.raised # "" THEN out.raised ELSE "ok",
                               IF out.obj # NoObj THEN {i} ELSE {}, SubQuery("", None), i)
          /\ obj' = IF out.raised # "" THEN obj ELSE out.obj
    /\ UNCHANGED <<store, nextId, l1, l2, ret, run>>

\* await c.find(q).all()
FindSubmodels(c, q) ==
    /\ LET out == FindAll(run, store, c, q)
       IN last' = SubResult("find", c, IF out.raised # "" THEN out.raised ELSE "ok",
                            out.ids, q, None)
    /\ UNCHANGED <<store, nextId, obj, l1, l2, ret, run>>

\* await c.update_many(q, {"$set": {"field2": v}}): invalidate_many(q), which
\* loads find(q).all(), then update_query with the preprocessed query (the
\* types have the cache key field id only, and both cache tiers are NoCache)
UpdateManySubmodels(c, q, v) ==
    /\ LET out == FindAll(run, store, c, q)
       IN IF out.raised # ""
          THEN /\ last' = SubResult("update_many", c, out.raised, {}, q, None)
               /\ store' = store
          ELSE /\ last' = SubResult("update_many", c, "ok", {}, q, None)
               /\ store' = [i \in Ids |->
                              IF SubMatches(store, _preprocess_query(c, q), i)
                              THEN [store[i] EXCEPT !.f.field2 = v] ELSE store[i]]
    /\ UNCHANGED <<nextId, obj, l1, l2, ret, run>>

\* await c.destroy_many(q): invalidate_many(q), then delete_query with the
\* preprocessed query
DestroyManySubmodels(c, q) ==
    /\ LET out == FindAll(run, store, c, q)
       IN IF out.raised # ""
          THEN /\ last' = SubResult("destroy_many", c, out.raised, {}, q, None)
               /\ store' = store
          ELSE /\ last' = SubResult("destroy_many", c, "ok", {}, q, None)
               /\ store' = [i \in Ids |->
                              IF SubMatches(store, _preprocess_query(c, q), i)
                              THEN NoDoc ELSE store[i]]
    /\ UNCHANGED <<nextId, obj, l1, l2, ret, run>>

SubQueries == {SubQuery("", None), SubQuery("field1", 1)}

NextSubmodel ==
    \/ \E c \in SubTypes : RegisterSubmodel(c)
    \/ \E c \in SubmodelTypes : \E v \in FieldValues : SaveSubmodel(c, v)
    \/ \E d \in {"", "wrong"} : InsertDocument(d, 1)
    \/ \E c \in SubmodelTypes : \E i \in Ids : GetSubmodel(c, i)
    \/ \E c \in SubmodelTypes : \E i \in Ids : ConstructSubmodel(c, i)
    \/ \E c \in SubmodelTypes : \E q \in SubQueries : FindSubmodels(c, q)
    \/ \E c \in SubmodelTypes : \E q \in SubQueries : UpdateManySubmodels(c, q, 2)
    \/ \E c \in SubmodelTypes : \E q \in SubQueries : DestroyManySubmodels(c, q)

SpecSubmodel == InitSubmodel /\ [][NextSubmodel]_vars

\* ------------------------------------------------- cached reads of sub-types
\* cls.get(i) of a sub-type hierarchy: find_one of the preprocessed query,
\* the document found passed to _ctor; None (NoObj) when none is found
SubGet(loaders, st, c, i) ==
    IF Cursor(st, _preprocess_query(c, SubQuery("_id", i))) = {} THEN Built("", NoObj)
    ELSE _ctor(loaders, c, i, st[i].f)

\* obj.to_dict(include_restricted=True, convert_id=True): the mapping a type
\* is constructed from again, "_id" and the fields
SubToDict(o) == [id |-> o.id, f |-> o.f]

\* cls._cache_get(cache_key, getter) as cache_get calls it: without ctor, so
\* a hit is built with cls itself
SubCacheGet(loaders, b1, b2, st, c, i) ==
    LET cache_key == <<"test", i, "">>
        got == SubGet(loaders, st, c, i)
    IN IF BackendHas(b1, cache_key)
       THEN [l1 |-> b1, l2 |-> b2, loads |-> 0,
             out |-> __init__(c, BackendGet(b1, cache_key).id,
                              BackendGet(b1, cache_key).f)]
       ELSE IF BackendHas(b2, cache_key)
       THEN [l1 |-> BackendSet(b1, cache_key, BackendGet(b2, cache_key)), l2 |-> b2,
             loads |-> 0,
             out |-> __init__(c, BackendGet(b2, cache_key).id,
                              BackendGet(b2, cache_key).f)]
       ELSE IF got.raised = "" /\ got.obj # NoObj
       THEN [l1 |-> BackendSet(b1, cache_key, SubToDict(got.obj)),
             l2 |-> BackendSet(b2, cache_key, SubToDict(got.obj)),
             loads |-> 1, out |-> got]
       ELSE [l1 |-> b1, l2 |-> b2, loads |-> 1, out |-> got]

\* o = await c.cache_get(i)
CacheGetSubmodel(c, i) ==
    /\ LET done == SubCacheGet(run, l1, l2, store, c, i)
       IN /\ l1' = done.l1
          /\ l2' = done.l2
          /\ last' = [SubResult("cache_get", c,
                                IF done.out.raised # "" THEN done.out.raised ELSE "ok",
                                IF done.out.obj # NoObj THEN {i} ELSE {},
                                SubQuery("_id", i), i)
                      EXCEPT !.log = <<done.loads>>]
          /\ obj' = IF done.out.raised # "" THEN obj ELSE done.out.obj
    /\ UNCHANGED <<store, nextId, ret, run>>

\* a new request: the scope-local L1 starts from an empty mapping
NewSubRequest ==
    /\ l1.kind = "request_local"
    /\ l1.data # NoEntries
    /\ l1' = RequestLocalCache(TRUE)
    /\ last' = SubResult("request", "none", "ok", {}, SubQuery("", None), None)
    /\ UNCHANGED <<store, nextId, obj, l2, ret, run>>

\* Specification SpecSubCache: the application registers the sub-types with
\* the base type, saves new records of them, and reads the stored records
\* with get and with cache_get through the base type and the sub-types; L1
\* is the NoCache or a RequestLocalCache inside a scope, L2 the SimpleCache.
\* No stored document is changed or deleted.
InitSubCache ==
    /\ store = [i \in Ids |-> NoDoc]
    /\ nextId = 1
    /\ obj = NoObj
    /\ last = SubResult("init", "none", "ok", {}, SubQuery("", None), None)
    /\ l1 \in {NoCache, RequestLocalCache(TRUE)}
    /\ l2 = SimpleCache
    /\ ret = NoRet
    /\ run = {}

NextSubCache ==
    \/ \E c \in SubTypes : RegisterSubmodel(c)
    \/ \E c \in SubmodelTypes : \E v \in FieldValues : SaveSubmodel(c, v)
    \/ \E c \in SubmodelTypes : \E i \in Ids : GetSubmodel(c, i)
    \/ \E c \in SubmodelTypes : \E i \in Ids : CacheGetSubmodel(c, i)
    \/ NewSubRequest

SpecSubCache == InitSubCache /\ [][NextSubCache]_vars

\* ------------------------------------ update of a record with a rejected field
\* Specification SpecUpdate: the TestModel of tests/test_storable_model.py,
\*
\*   class TestModel(StorableModel):
\*       field1 = StringField(rejected=True, ...)
\*       field2 = Field(required=True)
\*
\* The application creates and saves TestModels, loads them and calls
\* update(data) with any keys in data.  Both cache tiers are NoCache, so the
\* deletes of invalidate() change nothing and are left out.
TestModelFields == {"id", "field1", "field2"}

\* descriptor.rejected
rejected(field) == field = "field1"

TestDoc(v1, v2) == [cls |-> "TestModel", f |-> [field1 |-> v1, field2 |-> v2]]

TestObj(id, f) == [cls |-> "TestModel", id |-> id, f |-> f]

UpdateKeys == {"_id", "id", "field1", "field2"}
UpdateValues == 1..MaxUpdateDocs

\* the dicts update() is called with: up to two keys
UpdateDatas ==
    UNION {[K -> UpdateValues] : K \in {S \in SUBSET UpdateKeys : Cardinality(S) <= 2}}

\* the assignments of StorableModel.update: every field of the type that is
\* a key of data, is not rejected and is not named "_id"
update(o, data) ==
    LET accepted == {field \in TestModelFields :
                        field \in DOMAIN data /\ ~rejected(field) /\ field # "_id"}
    IN [o EXCEPT !.id = IF "id" \in accepted THEN data["id"] ELSE @,
                 !.f = [x \in DOMAIN o.f |-> IF x \in accepted THEN data[x] ELSE o.f[x]]]

\* Shard.save_obj: insert_one for a new record, replace_one with upsert=True
\* under the record's id otherwise
save_obj(st, o, next) ==
    IF o.id = None
    THEN [st EXCEPT ![next] = [cls |-> o.cls, f |-> o.f]]
    ELSE [st EXCEPT ![o.id] = [cls |-> o.cls, f |-> o.f]]

UpdateResult(op, o, data) ==
    [op |-> op, cls |-> o.cls, id |-> o.id, res |-> "ok", data |-> data, log |-> <<>>]

InitUpdate ==
    /\ store = [i \in Ids |-> NoDoc]
    /\ nextId = 1
    /\ obj = NoObj
    /\ last = UpdateResult("init", NoObj, <<>>)
    /\ l1 = NoCache
    /\ l2 = NoCache
    /\ ret = NoRet
    /\ run = <<>>

\* m = TestModel.create(field1=v1, field2=v2); await m.save()
CreateTestModel(v1, v2) ==
    /\ nextId <= MaxUpdateDocs
    /\ store' = save_obj(store, TestObj(None, TestDoc(v1, v2).f), nextId)
    /\ obj' = TestObj(nextId, TestDoc(v1, v2).f)
    /\ nextId' = nextId + 1
    /\ last' = UpdateResult("save", obj', <<>>)
    /\ UNCHANGED <<l1, l2, ret, run>>

\* m = await TestModel.find_one({"_id": i})
LoadTestModel(i) ==
    /\ store[i].cls = "TestModel"
    /\ obj' = TestObj(i, store[i].f)
    /\ last' = UpdateResult("find_one", obj', <<>>)
    /\ UNCHANGED <<store, nextId, l1, l2, ret, run>>

\* await m.update(data) of a saved record: the assignments, then save()
\* (every value here passes validate_all)
UpdateRecord(data) ==
    /\ obj.cls = "TestModel"
    /\ obj.id # None
    /\ store' = save_obj(store, update(obj, data), nextId)
    /\ obj' = update(obj, data)
    /\ last' = UpdateResult("update", obj, data)
    /\ UNCHANGED <<nextId, l1, l2, ret, run>>

NextUpdate ==
    \/ \E v1, v2 \in UpdateValues : CreateTestModel(v1, v2)
    \/ \E i \in Ids : LoadTestModel(i)
    \/ \E data \in UpdateDatas : UpdateRecord(data)

SpecUpdate == InitUpdate /\ [][NextUpdate]_vars

\* ------------------------------------------------ cascade over two levels
\* Specification SpecCascade: the application creates and saves Masters,
\* Tasks whose Cascade-policy field other_id holds None or the id of a stored
\* Master, and Subtasks whose Raise-policy field other_id holds None or the id
\* of a stored Task, loads them and destroys them.
CascadeCreateInputs(c) ==
    CASE c = "Master" -> {[NoFields EXCEPT !.name = FirstName]}
      [] c = "Task" -> {[NoFields EXCEPT !.other_id = m] :
                          m \in {None} \cup StoredIds("Master")}
      [] c = "Subtask" -> {[NoFields EXCEPT !.other_id = t] :
                             t \in {None} \cup StoredIds("Task")}

NextCascade ==
    \/ \E c \in {"Master", "Task", "Subtask"} : \E a \in CascadeCreateInputs(c) :
          Create(c, a) /\ Issued
    \/ \E i \in Ids : Load(i) /\ Issued
    \/ Save(TRUE) /\ Issued
    \/ Destroy(TRUE) /\ Issued

SpecCascade == Init /\ [][NextCascade]_vars

\* ------------------------------------------ mutations and cached reads
\* cls.cache_get(expression) while the application keeps the instance it holds
\* (the instance returned is only read)
CacheGetAside(c, expression) ==
    LET out == _cache_get(l1, l2, store, c, expression)
    IN /\ l1' = out.l1
       /\ l2' = out.l2
       /\ ret' = LookedUp("cache_get", EntityKey(c, expression), expression, out)
       /\ last' = [Quiet("cache_get") EXCEPT !.cls = c, !.log = out.log]
       /\ UNCHANGED <<store, nextId, obj, run>>

\* Specification SpecCoherence: one operation at a time.  L1 is the NoCache
\* or a RequestLocalCache inside a scope, L2 the SimpleCache; the application
\* creates, loads, saves, updates and destroys Masters, changes and deletes
\* them with update_many and destroy_many, and reads them through cache_get.
CoherenceCreateInputs == {[NoFields EXCEPT !.name = n] : n \in Names}
CoherencePatches == {[field |-> "name", value |-> n] : n \in Names}
CoherenceQueries == {AllQuery}
CoherenceExpressions == Names \cup 1..MaxLookupDocs

InitCoherence ==
    /\ store = [i \in Ids |-> NoDoc]
    /\ nextId = 1
    /\ obj = NoObj
    /\ last = Quiet("init")
    /\ l1 \in {NoCache, RequestLocalCache(TRUE)}
    /\ l2 = SimpleCache
    /\ ret = NoRet
    /\ run = <<>>

NextCoherence ==
    \/ nextId <= MaxLookupDocs /\ \E a \in CoherenceCreateInputs : Create("Master", a) /\ Issued
    \/ \E i \in Ids : Load(i) /\ Issued
    \/ nextId <= MaxLookupDocs /\ Save(TRUE) /\ Issued
    \/ \E patch \in CoherencePatches : obj.id # None /\ Update(patch) /\ Issued
    \/ Destroy(TRUE) /\ Issued
    \/ \E q \in CoherenceQueries : \E patch \in CoherencePatches :
          UpdateMany("Master", q, patch) /\ Issued
    \/ \E q \in CoherenceQueries : DestroyMany("Master", q) /\ Issued
    \/ \E expression \in CoherenceExpressions : CacheGet("Master", expression)
    \/ \E expression \in CoherenceExpressions : CacheGetAside("Master", expression)

SpecCoherence == InitCoherence /\ [][NextCoherence]_vars

\* ------------------------------------------------- a save racing readers
\* Specification SpecRace: the coroutines of one save() and of MaxReaders
\* cache_get() calls, interleaved at their awaits.  run.writer is the save:
\* the calls it has still to await; run.readers are the readers: the await
\* each one is suspended at (pc), its cache key, the data it holds, and
\* whether it returns ctor(data) of a cache hit (hit) or what the getter
\* gave; run.pre is the document stored when the save started.
Readers == 1..MaxReaders
IdleReader ==
    [pc |-> "idle", expression |-> None, key |-> <<>>, data |-> NoData, hit |-> FALSE]
IdleWriter == [pc |-> "idle", o |-> NoObj, todo |-> <<>>]

\* the record R all coroutines work on
TheId == 1

\* get(key) as the data a reader holds: NoData stands for None
GetData(b, key) == IF BackendHas(b, key) THEN BackendGet(b, key) ELSE NoData

InitRace ==
    /\ \E a \in LookupAliases :
          /\ store = [i \in Ids |-> IF i = TheId
                                    THEN [cls |-> "Master",
                                          f |-> [NoFields EXCEPT !.name = FirstName,
                                                                 !.alias = a]]
                                    ELSE NoDoc]
          /\ obj = Ctor("Master", TheId, store[TheId].f)
    /\ nextId = TheId + 1
    /\ last = Quiet("init")
    /\ l1 \in {NoCache, RequestLocalCache(TRUE)}
    /\ l2 = SimpleCache
    /\ ret = NoRet
    /\ run = [writer |-> IdleWriter, readers |-> [r \in Readers |-> IdleReader],
              pre |-> NoData]

\* obj.alias = value; await obj.save(): up to the first await
StartSave(value) ==
    /\ run.writer.pc = "idle"
    /\ value # obj.f.alias
    /\ LET o == [obj EXCEPT !.f.alias = value]
       IN /\ validate_all(store, o) = ""
          /\ run' = [run EXCEPT !.writer = [pc |-> "running", o |-> o,
                                            todo |-> SaveLog(o, TRUE)],
                                !.pre = [id |-> TheId, cls |-> "Master",
                                         f |-> store[TheId].f]]
    /\ UNCHANGED <<store, nextId, obj, last, l1, l2, ret>>

\* the save resumes: the next of its calls completes
WriterStep ==
    /\ run.writer.pc = "running"
    /\ LET e == Head(run.writer.todo)
           o == run.writer.o
           rest == Tail(run.writer.todo)
       IN /\ l1' = IF e.op = "delete" /\ e.tier = 1 THEN BackendDelete(l1, e.key) ELSE l1
          /\ l2' = IF e.op = "delete" /\ e.tier = 2 THEN BackendDelete(l2, e.key) ELSE l2
          /\ store' = IF e.op = "replace_one" THEN [store EXCEPT ![o.id] = ToDoc(o)]
                      ELSE store
          /\ run' = [run EXCEPT !.writer.todo = rest,
                                !.writer.pc = IF rest = <<>> THEN "done" ELSE "running"]
          /\ obj' = IF rest = <<>> THEN _set_initial_state(o) ELSE obj
    /\ UNCHANGED <<nextId, last, ret>>

\* Master.cache_get(expression): up to the first await
StartRead(r, expression) ==
    /\ run.readers[r].pc = "idle"
    /\ run' = [run EXCEPT !.readers[r] =
                  [pc |-> "l1.has", expression |-> expression,
                   key |-> EntityKey("Master", expression), data |-> NoData,
                   hit |-> FALSE]]
    /\ UNCHANGED <<store, nextId, obj, last, l1, l2, ret>>

\* reader r resumes: the call it awaits completes, and it runs to its next
\* await or to its return
ReaderStep(r) ==
    LET me == run.readers[r]
        at(pc, data) == [run EXCEPT !.readers[r].pc = pc, !.readers[r].data = data]
        hit(pc, data) == [at(pc, data) EXCEPT !.readers[r].hit = TRUE]
    IN /\ me.pc \notin {"idle", "done"}
       /\ CASE me.pc = "l1.has" ->
                 /\ run' = at(IF BackendHas(l1, me.key) THEN "l1.get" ELSE "l2.has", NoData)
                 /\ UNCHANGED <<l1, l2>>
            [] me.pc = "l1.get" ->
                 /\ run' = hit("done", GetData(l1, me.key))
                 /\ UNCHANGED <<l1, l2>>
            [] me.pc = "l2.has" ->
                 /\ run' = at(IF BackendHas(l2, me.key) THEN "l2.get" ELSE "getter", NoData)
                 /\ UNCHANGED <<l1, l2>>
            [] me.pc = "l2.get" ->
                 /\ run' = hit("l1.set", GetData(l2, me.key))
                 /\ UNCHANGED <<l1, l2>>
            [] me.pc = "getter" ->
                 /\ LET o == find_one(store, "Master",
                                      _resolve_get_query("Master", me.expression))
                    IN run' = IF o.id = None THEN at("done", NoData)
                              ELSE at("l2.set", to_dict(o))
                 /\ UNCHANGED <<l1, l2>>
            [] me.pc = "l2.set" ->
                 /\ l2' = BackendSet(l2, me.key, me.data)
                 /\ run' = at("l1.set", me.data)
                 /\ UNCHANGED l1
            [] me.pc = "l1.set" ->
                 /\ l1' = BackendSet(l1, me.key, me.data)
                 /\ run' = at("done", me.data)
                 /\ UNCHANGED l2
       /\ UNCHANGED <<store, nextId, obj, last, ret>>

RaceExpressions == {TheId, FirstName}

NextRace ==
    \/ \E value \in LookupAliases : StartSave(value)
    \/ WriterStep
    \/ \E r \in Readers : \E expression \in RaceExpressions : StartRead(r, expression)
    \/ \E r \in Readers : ReaderStep(r)

SpecRace == InitRace /\ [][NextRace]_vars

\* ------------------------------------------- a save racing a destroy
\* Specification SpecRefRace: the coroutine of save() of a new dependent
\* (a Minion or a Task) and the coroutine of destroy() of the stored Master
\* with identity TheId, interleaved at their awaits; both cache tiers are the
\* NoCache.  run.saver is the save: the await it is suspended at (pc) and its
\* record; run.destroyer is the destroy: its pc, the references
\* _check_refs_on_destroy has still to evaluate (todo) and its ref_classes.
IdleSaver == [pc |-> "idle", o |-> NoObj]
IdleDestroyer == [pc |-> "idle", todo |-> <<>>, ref_classes |-> {}]

InitRefRace ==
    /\ store = [i \in Ids |-> IF i = TheId
                              THEN [cls |-> "Master",
                                    f |-> [NoFields EXCEPT !.name = FirstName]]
                              ELSE NoDoc]
    /\ nextId = TheId + 1
    /\ obj = Ctor("Master", TheId, store[TheId].f)
    /\ last = Quiet("init")
    /\ l1 = NoCache
    /\ l2 = NoCache
    /\ ret = NoRet
    /\ run = [saver |-> IdleSaver, destroyer |-> IdleDestroyer]

RefRaceCreateInputs ==
    {[NoFields EXCEPT !.master_id = m, !.other_id = t] :
        m \in {None, TheId}, t \in {None, TheId}}

\* d = c(attrs); await d.save(): up to the first await, in validate_all
StartDependentSave(c, attrs) ==
    /\ run.saver.pc \in {"idle", "done", "failed"}
    /\ nextId \in Ids
    /\ run' = [run EXCEPT !.saver = [pc |-> "validate", o |-> Ctor(c, None, attrs)]]
    /\ UNCHANGED <<store, nextId, obj, last, l1, l2, ret>>

\* the save resumes: the reads of validate_all complete and it raises
\* ValidationError or goes on to _save_to_db; then insert_one completes
SaverStep ==
    /\ CASE run.saver.pc = "validate" ->
              /\ run' = [run EXCEPT !.saver.pc =
                            IF validate_all(store, run.saver.o) = "" THEN "insert_one"
                            ELSE "failed"]
              /\ UNCHANGED <<store, nextId>>
         [] run.saver.pc = "insert_one" ->
              /\ store' = [store EXCEPT ![nextId] = ToDoc(run.saver.o)]
              /\ nextId' = nextId + 1
              /\ run' = [run EXCEPT !.saver.pc = "done"]
         [] OTHER -> FALSE
    /\ UNCHANGED <<obj, last, l1, l2, ret>>

\* await O.destroy() with the default hooks: up to the first await of
\* _check_refs_on_destroy, the references in the order the set is iterated in
StartDestroy ==
    /\ run.destroyer.pc \in {"idle", "refused"}
    /\ store[TheId].cls = "Master"
    /\ \E order \in IterationOrders["Master"] :
          run' = [run EXCEPT !.destroyer =
                     [pc |-> "check", todo |-> order, ref_classes |-> {}]]
    /\ UNCHANGED <<store, nextId, obj, last, l1, l2, ret>>

\* the destroy resumes: the find, destroy_many or update_many of the next
\* reference completes, and after the last one it raises ObjectHasReferences
\* or goes on to _delete_from_db; then delete_one completes
DestroyerStep ==
    /\ CASE run.destroyer.pc = "check" ->
              LET acc == CheckRef([store |-> store, log |-> <<>>,
                                   ref_classes |-> run.destroyer.ref_classes],
                                  TheId, Head(run.destroyer.todo))
                  rest == Tail(run.destroyer.todo)
              IN /\ store' = acc.store
                 /\ run' = [run EXCEPT !.destroyer =
                               [pc |-> IF rest # <<>> THEN "check"
                                       ELSE IF acc.ref_classes # {} THEN "refused"
                                       ELSE "delete_one",
                                todo |-> rest, ref_classes |-> acc.ref_classes]]
                 /\ obj' = obj
         [] run.destroyer.pc = "delete_one" ->
              /\ store' = [store EXCEPT ![TheId] = NoDoc]
              /\ run' = [run EXCEPT !.destroyer.pc = "done"]
              /\ obj' = [obj EXCEPT !.id = None]
         [] OTHER -> FALSE
    /\ UNCHANGED <<nextId, last, l1, l2, ret>>

NextRefRace ==
    \/ \E c \in {"Minion", "Task"} : \E attrs \in RefRaceCreateInputs :
          StartDependentSave(c, attrs)
    \/ SaverStep
    \/ StartDestroy
    \/ DestroyerStep

SpecRefRace == InitRefRace /\ [][NextRefRace]_vars

\* ================================================================== claims
\* what the claims speak of
LogIndex == 1..Len(last.log)

Deleted(log, tier, key) == \E k \in 1..Len(log) : log[k] = Ev("delete", tier, key)
DeletedBoth(log, key) == Deleted(log, 1, key) /\ Deleted(log, 2, key)
NoCacheDelete(log) == \A k \in 1..Len(log) : log[k].op # "delete"

\* the (dependent type, field) pairs declared with a policy towards type c
Dependents(c, policy) ==
    {df \in UserClasses \X DataFields :
        /\ df[2] \in RefFieldsOf[df[1]]
        /\ RefOf(df[1], df[2]).reference_model = c
        /\ RefOf(df[1], df[2]).on_destroy = policy}

\* the stored records of type d whose field f holds id
Referencing(st, d, f, id) == {i \in Ids : st[i].cls = d /\ st[i].f[f] = id}

\* C1 (as claimed): a destroy refused with ObjectHasReferences has changed no
\* stored record and has issued no cache delete.
C1_RefusedDestroyMutatesNothing ==
    [][(last'.op = "destroy" /\ last'.res = "ObjectHasReferences")
        => (store' = store /\ NoCacheDelete(last'.log))]_vars

\* C2 (as claimed): destroy of a persisted owner that a stored record references
\* through a Raise-policy field fails with ObjectHasReferences naming that
\* record's type, the owner's document stays and the instance keeps its id.
C2_RaiseDependentBlocksDestroy ==
    [][(last'.op = "destroy" /\ obj.id # None)
        => \A df \in Dependents(obj.cls, RAISE) :
              Referencing(store, df[1], df[2], obj.id) # {}
              => /\ last'.res = "ObjectHasReferences"
                 /\ df[1] \in last'.names
                 /\ store'[obj.id] = store[obj.id]
                 /\ store'[obj.id].cls = obj.cls
                 /\ obj'.id = obj.id]_vars

\* C3 (as claimed): the type names in ObjectHasReferences are exactly the
\* Raise-policy dependent types with a stored record referencing the owner,
\* in whatever order the references are evaluated.
C3_ErrorNamesEveryBlockingType ==
    [][(last'.op = "destroy" /\ last'.res = "ObjectHasReferences")
        => last'.names =
             {d \in UserClasses :
                \E df \in Dependents(obj.cls, RAISE) :
                    df[1] = d /\ Referencing(store, d, df[2], obj.id) # {}}]_vars

\* C4: after a successful destroy no stored record references the former owner
\* through a Cascade-policy field, and the owner's document is gone.
C4_CascadeLeavesNoDependents ==
    (last.op = "destroy" /\ last.res = "ok")
    => /\ store[last.id] = NoDoc
       /\ \A df \in Dependents(last.cls, CASCADE) :
             Referencing(store, df[1], df[2], last.id) = {}

\* a successful destroy that found Cascade dependents: it invalidated the keys
\* of a Task before delete_many
C4_Witness ==
    /\ last.op = "destroy" /\ last.res = "ok"
    /\ \E k \in LogIndex : last.log[k].op = "delete" /\ last.log[k].key[1] = "task"

\* C5: a successful destroy leaves every record that referenced the owner
\* through a Detach-policy field in the store with that field None and nothing
\* else changed, and leaves the records that did not reference the owner as
\* they were.
C5_DetachNullsReference ==
    [][(last'.op = "destroy" /\ last'.res = "ok")
        => \A i \in Ids \ {obj.id} :
              /\ \A df \in Dependents(obj.cls, DETACH) :
                    (store[i].cls = df[1] /\ store[i].f[df[2]] = obj.id)
                    => store'[i] = [store[i] EXCEPT !.f[df[2]] = None]
              /\ (\A x \in DataFields : store[i].f[x] # obj.id)
                    => store'[i] = store[i]]_vars

\* a successful destroy that detached a Minion (its keys were invalidated
\* before update_many) while another dependent of another owner is stored
C5_Witness ==
    /\ last.op = "destroy" /\ last.res = "ok"
    /\ \E k \in LogIndex : last.log[k].op = "delete" /\ last.log[k].key[1] = "minion"
    /\ \E i \in Ids : store[i].cls = "Minion" /\ store[i].f.other_id = None

\* C6 (as claimed): a save in which some reference field holds a value that is
\* neither None nor the _id of a stored record of the referenced type raises
\* ValidationError naming the field and the referenced type, and persists
\* nothing.
ValidReference(st, c, field, value) ==
    \/ value = None
    \/ value \in Ids /\ st[value].cls = RefOf(c, field).reference_model

C6_SaveRequiresValidReferences ==
    [][(last'.op = "save" /\ \E x \in RefFieldsOf[obj.cls] :
                                 ~ValidReference(store, obj.cls, x, obj.f[x]))
        => /\ last'.res = "ValidationError"
           /\ last'.field \in RefFieldsOf[obj.cls]
           /\ ~ValidReference(store, obj.cls, last'.field, obj.f[last'.field])
           /\ last'.names = {RefOf(obj.cls, last'.field).reference_model}
           /\ store' = store]_vars

\* the cache keys a record of type c is stored under, read off the class
\* declarations: the primary key field, id, and the secondary cache-key fields
\* of the type and of the types it inherits from
ExpectedKeyFields(c) ==
    {"id"} \cup UNION {(IF DeclaredKeyField(b) \in {"", "_id"} THEN {} ELSE {DeclaredKeyField(b)})
                       \cup DeclaredCacheKeyFields(b) : b \in SeqToSet(Mro(c))}
ExpectedMethods(c) == UNION {DeclaredCachedMethods(b) : b \in SeqToSet(Mro(c))}

MethodDeleted(log) == \E k \in 1..Len(log) : log[k].op = "delete" /\ log[k].key[3] # ""

\* C7 (as claimed): a save of a persisted record whose key field changed from old to new
\* since the last load or save deletes "{collection}.old" in both tiers and
\* issues no delete and no set for "{collection}.new".
C7_SaveDeletesOldKeyNotNew ==
    [][(last'.op \in {"save", "update"} /\ last'.res = "ok" /\ last'.inv
            /\ obj.id # None)
        => \A x \in ExpectedKeyFields(obj.cls) \ {"id"} :
              LET old == obj.init.f[x]
                  new == obj'.f[x]
              IN  (old # None /\ new # None /\ new # old)
                  => /\ DeletedBoth(last'.log, EntityKey(obj.cls, old))
                     /\ \A k \in 1..Len(last'.log) :
                           last'.log[k].key # EntityKey(obj.cls, new)]_vars

\* C7 (amended): such a save deletes "{collection}.old" in both tiers and
\* issues no set for "{collection}.new"; a delete for "{collection}.new" is
\* issued only when new is also the snapshot value of another cache-key field
\* of the record.
C7_SaveDeletesSnapshotKeys ==
    [][(last'.op \in {"save", "update"} /\ last'.res = "ok" /\ last'.inv
            /\ obj.id # None)
        => \A x \in ExpectedKeyFields(obj.cls) \ {"id"} :
              LET old == obj.init.f[x]
                  new == obj'.f[x]
              IN  (old # None /\ new # None /\ new # old)
                  => /\ DeletedBoth(last'.log, EntityKey(obj.cls, old))
                     /\ \A k \in 1..Len(last'.log) :
                           last'.log[k].key = EntityKey(obj.cls, new)
                           => /\ last'.log[k].op = "delete"
                              /\ \E y \in ExpectedKeyFields(obj.cls) \ {x} :
                                    InitialGet(obj, y) = new]_vars

\* an update that changed a key field: the key deleted is one the record no
\* longer answers to
C7_Witness ==
    /\ last.op = "update" /\ last.res = "ok" /\ last.id # None
    /\ \E k \in LogIndex :
          /\ last.log[k].op = "delete"
          /\ last.log[k].key[3] = ""
          /\ last.log[k].key[2] \in Names \ {obj.f.name, obj.f.alias}

\* C8: invalidating a persisted record deletes, on L1 and on L2, the key
\* "{collection}.{value}" of every cache-key field (primary key field, id,
\* secondary and inherited ones) that has a value, and the key
\* "{collection}.{id}.{method}" of every memoized method, cached or not.
C8_InvalidateDeletesEveryKey ==
    [][(last'.op \in {"save", "update", "destroy"} /\ last'.res = "ok"
            /\ last'.inv /\ obj.id # None)
        => /\ \A x \in ExpectedKeyFields(obj.cls) :
                 InitialGet(obj, x) # None
                 => DeletedBoth(last'.log, EntityKey(obj.cls, InitialGet(obj, x)))
           /\ \A m \in ExpectedMethods(obj.cls) :
                 DeletedBoth(last'.log, MethodKey(obj.cls, obj.id, m))]_vars

\* a persisted Master with name and alias set was invalidated by a save
C8_Witness ==
    /\ last.op = "save" /\ last.res = "ok" /\ last.inv /\ last.id # None
    /\ obj.f.name # None /\ obj.f.alias # None
    /\ DeletedBoth(last.log, EntityKey(obj.cls, obj.f.alias))

\* C9 (as claimed): every save of a record deletes the record's per-id
\* memoized-method keys in both tiers, the first save as well as the second.
C9_EverySaveInvalidatesMethods ==
    [][(last'.op = "save" /\ last'.res = "ok" /\ last'.inv)
        => \A m \in ExpectedMethods(obj.cls) :
              DeletedBoth(last'.log, MethodKey(obj.cls, obj'.id, m))]_vars

\* C9 (amended): every save of a record that already has an id deletes its
\* per-id memoized-method keys in both tiers, whatever happened in between;
\* the save that inserts a new record deletes no memoized-method key.
C9_PersistedSaveInvalidatesMethods ==
    [][(last'.op = "save" /\ last'.res = "ok" /\ last'.inv)
        => IF obj.id # None
           THEN \A m \in ExpectedMethods(obj.cls) :
                   DeletedBoth(last'.log, MethodKey(obj.cls, obj.id, m))
           ELSE ~MethodDeleted(last'.log)]_vars

\* a record saved again right after a save: the second save deleted the
\* method keys too
C9_Witness ==
    /\ last.op = "save" /\ last.res = "ok" /\ last.inv /\ last.id # None
    /\ ExpectedMethods(last.cls) # {}
    /\ \A m \in ExpectedMethods(last.cls) :
          DeletedBoth(last.log, MethodKey(last.cls, last.id, m))

\* C10: update_many and destroy_many delete, in both tiers, every key-field key
\* and every memoized-method key of every record the query matches, and only
\* then change the store: the storage call is the last call, and every record
\* it changed or removed had its keys deleted before.
KeysDeleted(log, c, i, doc) ==
    /\ \A x \in ExpectedKeyFields(c) :
          LET v == IF x = "id" THEN i ELSE doc.f[x]
          IN  v # None => DeletedBoth(log, EntityKey(c, v))
    /\ \A m \in ExpectedMethods(c) : DeletedBoth(log, MethodKey(c, i, m))

BulkOrdered(log) ==
    /\ Len(log) >= 1
    /\ log[Len(log)].op \in {"delete_many", "update_many"}
    /\ \A k \in 1..(Len(log) - 1) : log[k].op = "delete" /\ log[k].tier \in {1, 2}

C10_BulkInvalidatesBeforeMutation ==
    [][/\ (last'.op \in {"update_many", "destroy_many"})
          => /\ BulkOrdered(last'.log)
             /\ \A i \in Ids : store'[i] # store[i]
                   => KeysDeleted(last'.log, store[i].cls, i, store[i])
       /\ \A q \in CacheQueryInputs :
             (DestroyMany("Master", q)
                \/ \E patch \in CacheUpdateInputs : UpdateMany("Master", q, patch))
             => \A i \in FindIds(store, "Master", q) :
                   KeysDeleted(last'.log, "Master", i, store[i])]_vars

\* a bulk operation that matched two records and invalidated both
C10_Witness ==
    /\ last.op \in {"update_many", "destroy_many"}
    /\ Cardinality({last.log[k].key[2] : k \in {j \in LogIndex : last.log[j].key[3] # ""}}) >= 2

\* C15: no exception leaves get or set of a backend, whatever the node
\* clients raise, for however many attempts, and whatever the number of nodes:
\* get returns None and set returns normally.
C15_NoFaultLeavesGetOrSet ==
    ret.op \in {"get", "set"} => ret.result # "raise"

\* set(k, v) has returned and the next call of the backend is get(k)
SetThenGet ==
    /\ ret.op = "set"
    /\ ret.result # "raise"
    /\ ret'.op = "get"
    /\ ret'.key = ret.key

\* C16 as stated: set(k, v) followed immediately by get(k) returns v for every
\* backend other than NoCache (SimpleCache, RequestLocalCache, MemcachedCache,
\* TraceCache).
C16_RoundTripEveryBackend ==
    [][(SetThenGet /\ l1.kind # "no_cache")
        => (ret'.result # "raise" /\ ret'.value = ret.arg)]_vars

\* C16, amended: set(k, v) followed immediately by get(k) returns v for the
\* SimpleCache, for the RequestLocalCache inside a scope and for the
\* MemcachedCache with at least one node when no node-client call of the two
\* calls fails; after any set the get of the TraceCache, and of the
\* RequestLocalCache outside a scope, returns None.
C16_RoundTripStoringBackends ==
    [][SetThenGet
        => /\ (Stores(l1) \/ (l1.kind = "memcached" /\ ret.faults = 0 /\ ret'.faults = 0))
              => (ret'.result # "raise" /\ ret'.value = ret.arg)
           /\ (l1.kind = "trace" \/ (l1.kind = "request_local" /\ ~l1.scope))
              => ret'.result = "None"]_vars

\* get of a MemcachedCache with two nodes returned, without a fault, the value
\* a set has stored
C16_Witness ==
    /\ l1.kind = "memcached"
    /\ Len(l1.nodes) = MaxNodes
    /\ ret.op = "get"
    /\ ret.faults = 0
    /\ ret.result = "value"

\* the backend holds a value under key
Present(b, key) ==
    \/ Stores(b) /\ DictHas(b.data, key)
    \/ b.kind = "memcached" /\ \E n \in 1..Len(b.nodes) : DictHas(b.nodes[n], key)

\* this step is a call of delete during which no node client fails
DeleteCalled ==
    /\ ret'.op = "delete"
    /\ ret'.faults = 0
    /\ ret' # ret \/ l1' # l1

\* delete(k) has returned and the next call of the backend is get(k)
DeleteThenGet ==
    /\ ret.op = "delete"
    /\ ret.result # "raise"
    /\ ret'.op = "get"
    /\ ret'.key = ret.key

CacheGetCalled == last'.op = "cache_get" /\ ret'.turn # ret.turn
CachedMethodCalled == last'.op = "cached_method" /\ ret'.turn # ret.turn

SetIssued(log, tier, key) == \E k \in 1..Len(log) : log[k] = Ev("set", tier, key)
LoaderAt(log) == {k \in 1..Len(log) : log[k].op = "find_one"}

\* both tiers miss the key
BothMiss(key) == ~BackendHas(l1, key) /\ ~BackendHas(l2, key)

\* C13: cache_get(expression) awaits the loader exactly once when L1 and L2
\* both miss the key and not at all otherwise; when the loader returns a
\* record, set(key, to_dict) is issued to L2 and then to L1 after the loader,
\* and a storing tier holds the stored document under the key afterwards; when
\* the loader returns None no set is issued and both tiers are unchanged.
\* cache_get(None) returns None without consulting a tier or the loader.
C13_LoaderOnlyOnFullMiss ==
    [][CacheGetCalled
        => IF ret'.arg = None
           THEN ret'.loads = 0 /\ last'.log = <<>> /\ l1' = l1 /\ l2' = l2
           ELSE /\ ret'.loads = (IF BothMiss(ret'.key) THEN 1 ELSE 0)
                /\ Cardinality(LoaderAt(last'.log)) = ret'.loads
                /\ (ret'.loads = 1 /\ ret'.value # None)
                   => /\ \E k \in LoaderAt(last'.log) :
                            /\ Len(last'.log) = k + 2
                            /\ last'.log[k + 1] = Ev("set", 2, ret'.key)
                            /\ last'.log[k + 2] = Ev("set", 1, ret'.key)
                      /\ ret'.data = [id |-> ret'.value, cls |-> "Master",
                                      f |-> store[ret'.value].f]
                      /\ Stores(l1) => BackendGet(l1', ret'.key) = ret'.data
                      /\ Stores(l2) => BackendGet(l2', ret'.key) = ret'.data
                /\ (ret'.loads = 1 /\ ret'.value = None)
                   => /\ ~SetIssued(last'.log, 1, ret'.key)
                      /\ ~SetIssued(last'.log, 2, ret'.key)
                      /\ l1' = l1
                      /\ l2' = l2]_vars

\* cache_get has missed both storing tiers, loaded the record and left it in
\* both
C13_Witness ==
    /\ ret.op = "cache_get"
    /\ ret.loads = 1
    /\ ret.value # None
    /\ Stores(l1) /\ BackendHas(l1, ret.key)
    /\ Stores(l2) /\ BackendHas(l2, ret.key)

\* C12: a cached lookup (cache_get or a memoized method) that finds the key
\* missing in L1 and held by L2 does not await the loader, returns the value
\* L2 holds and issues set(key, value) to L1, so that a storing L1 holds the
\* same value under the key afterwards.
C12_L2HitPopulatesL1 ==
    [][((CacheGetCalled \/ CachedMethodCalled)
        /\ ret'.key # <<>>
        /\ ~BackendHas(l1, ret'.key)
        /\ BackendHas(l2, ret'.key))
        => /\ ret'.loads = 0
           /\ SetIssued(last'.log, 1, ret'.key)
           /\ IF last'.op = "cache_get"
              THEN ret'.data = BackendGet(l2, ret'.key)
              ELSE ret'.value = BackendGet(l2, ret'.key)
           /\ Stores(l1) => /\ BackendHas(l1', ret'.key)
                            /\ BackendGet(l1', ret'.key) = BackendGet(l2, ret'.key)]_vars

\* C14: with a storing backend in at least one tier, a call of a memoized
\* method of a persisted record awaits the original method only when neither
\* tier holds the key, and a call that directly follows a call for the same
\* key does not await it and returns the same value, whatever the value is.
C14_MemoizedCallsOriginalOnce ==
    [][(CachedMethodCalled /\ ret'.arg # None /\ (Stores(l1) \/ Stores(l2)))
        => /\ ret'.loads = 1 => BothMiss(ret'.key)
           /\ (last.op = "cached_method" /\ ret.key = ret'.key)
              => (ret'.loads = 0 /\ ret'.value = ret.value)]_vars

\* the save and every cache_get of the race have returned
Quiescent ==
    /\ run.writer.pc = "done"
    /\ \A r \in Readers : run.readers[r].pc = "done"

\* the keys of R the readers look up, and the document stored for R
KeysOfR == {EntityKey("Master", e) : e \in RaceExpressions}
StoredR == [id |-> TheId, cls |-> "Master", f |-> store[TheId].f]
Tiers == <<l1, l2>>

HookAt(log, name) == {k \in 1..Len(log) : log[k].op = "hook" /\ log[k].key[3] = name}
DeletesAt(log) == {k \in 1..Len(log) : log[k].op = "delete"}
WritesAt(log) == {k \in 1..Len(log) : log[k].op \in {"insert_one", "replace_one"}}
Before(S, T) == \A k \in S : \A m \in T : k < m

\* the cache deletes of a log, in order
RECURSIVE DeletesOf(_)
DeletesOf(log) ==
    IF log = <<>> THEN <<>>
    ELSE (IF Head(log).op = "delete" THEN <<Head(log)>> ELSE <<>>) \o DeletesOf(Tail(log))

\* C25: a save() that persists runs _before_validation, then (the record
\* having passed validate_all) _before_save, then the cache deletes
\* invalidate() derives from the snapshot taken before the save, then one
\* storage write (insert_one if the record had no id, replace_one otherwise),
\* refreshes the snapshot, and then runs _after_save with whether the record
\* had no id on entry; no cache delete follows the storage write.  A save
\* stopped by validate_all has run _before_validation and not _before_save.
C25_SaveStepsInOrder ==
    [][/\ (last'.op = "save" /\ last'.res = "ok")
          => LET log == last'.log
                 skip == HookAt(log, "_before_validation") = {}
             IN /\ Cardinality(WritesAt(log)) = 1
                /\ \A w \in WritesAt(log) :
                      log[w] = DbEv(IF obj.id = None THEN "insert_one" ELSE "replace_one",
                                    obj.cls, obj.id)
                /\ validate_all(store, obj) = ""
                /\ Cardinality(HookAt(log, "_before_validation")) = (IF skip THEN 0 ELSE 1)
                /\ Cardinality(HookAt(log, "_before_save")) = (IF skip THEN 0 ELSE 1)
                /\ Cardinality(HookAt(log, "_after_save")) = (IF skip THEN 0 ELSE 1)
                /\ Before(HookAt(log, "_before_validation"), HookAt(log, "_before_save"))
                /\ Before(HookAt(log, "_before_save"), DeletesAt(log) \cup WritesAt(log))
                /\ Before(DeletesAt(log), WritesAt(log))
                /\ Before(WritesAt(log), HookAt(log, "_after_save"))
                /\ DeletesOf(log) = (IF last'.inv THEN invalidate(obj) ELSE <<>>)
                /\ \A k \in HookAt(log, "_after_save") :
                      log[k].key = <<collection(obj.cls), obj'.id, "_after_save",
                                     obj.id = None>>
                /\ obj'.init = [id |-> obj'.id, f |-> obj'.f]
                /\ obj'.f = obj.f
                /\ store'[obj'.id] = ToDoc(obj)
       /\ (last'.op = "save" /\ last'.res = "ValidationError")
          => HookAt(last'.log, "_before_save") = {}]_vars

\* a save with hooks and invalidation has replaced the document of a record
\* whose key field was changed since its snapshot
C25_Witness ==
    /\ last.op = "save" /\ last.res = "ok" /\ last.inv
    /\ last.id # None
    /\ HookAt(last.log, "_after_save") # {}
    /\ DeletesAt(last.log) # {}
    /\ \E i \in Ids : store[i].cls = "Master" /\ store[i].f.name # FirstName

\* the calls of a log that reach a cache tier or the store
IsCacheOrStoreCall(e) == e.op # "hook"
HookRan(log, name) == \E k \in 1..Len(log) : log[k].op = "hook" /\ log[k].key[3] = name

\* C18: a save() that stops before the persist step (DoNotSave from
\* _before_validation or _before_save, or ValidationError) has issued no cache
\* delete and no storage call, has left the store and the instance with its
\* initial-state snapshot as they were, and has not run _after_save.
C18_StoppedSaveChangesNothing ==
    [][(last'.op = "save" /\ last'.res \in {"DoNotSave", "ValidationError"})
        => /\ \A k \in 1..Len(last'.log) : ~IsCacheOrStoreCall(last'.log[k])
           /\ ~HookRan(last'.log, "_after_save")
           /\ store' = store
           /\ nextId' = nextId
           /\ obj' = obj]_vars

\* a save of an instance with an unsaved change was stopped by a hook after
\* the hook ran, and the snapshot still differs from the fields
C18_Witness ==
    /\ last.op = "save" /\ last.res = "DoNotSave" /\ last.inv
    /\ HookRan(last.log, "_before_save")
    /\ obj.id # None /\ obj.f # obj.init.f

\* C19: destroy() of an instance without id runs no hook, evaluates no
\* reference policy, issues no cache delete and no storage call, and leaves the
\* store and the instance (fields, snapshot, no id) unchanged.
C19_DestroyOfNewIsNoOp ==
    [][(last'.op = "destroy" /\ obj.id = None)
        => /\ last'.log = <<>>
           /\ last'.res = "new"
           /\ store' = store
           /\ obj' = obj
           /\ obj'.id = None]_vars

\* destroy() was called on a new instance with fields set while records are
\* stored
C19_Witness ==
    /\ last.op = "destroy" /\ last.res = "new"
    /\ obj.id = None /\ obj.f # NoFields
    /\ \E i \in Ids : store[i] # NoDoc

\* C20: the registry of every type holds no ModelReference of an abstract
\* type, and exactly the ModelReference (dependent type, field, policy) of
\* each concrete type for each reference field to it that the concrete type
\* declares or inherits.
ExpectedReferences(r) ==
    {ModelReference(cf[1], cf[2], RefOf(cf[1], cf[2]).on_destroy) :
        cf \in {x \in (Classes \ AbstractClasses) \X DataFields :
                  /\ x[2] \in UNION {DeclaredRefFields(b) : b \in SeqToSet(Mro(x[1]))}
                  /\ RefOf(x[1], x[2]).reference_model = r}}

\* the types the program has instances or stored records of
TypesInUse == ({obj.cls} \cup {store[i].cls : i \in Ids}) \ {"none"}

C20_RegistryHoldsConcreteTypesOnly ==
    \A r \in Classes \cup TypesInUse : ReferencesOf[r] = ExpectedReferences(r)

\* the entry registered for the concrete Minion through the field it inherits
\* from the abstract Worker has refused a destroy
C20_Witness ==
    /\ last.op = "destroy" /\ last.res = "ObjectHasReferences" /\ last.names = {"Minion"}
    /\ ModelReference("Minion", "master_id", RAISE) \in ReferencesOf[last.cls]
    /\ \A ref \in ReferencesOf[last.cls] : ref.ref_class # "Worker"

\* C26: a destroy() of a record with an id that succeeds runs _before_delete
\* (the reference policies) first, then the cache deletes of invalidate(), then
\* one delete_one of the record's document, then _after_delete, which is
\* awaited while the record still has its id, and then clears the id.  The
\* store holds no document under the id afterwards, and a save() that follows
\* inserts a document under an id no document has had.
C26_DestroyStepsInOrder ==
    [][/\ (last'.op = "destroy" /\ last'.res = "ok")
          => LET log == last'.log
                 own == IF last'.inv THEN invalidate(obj) ELSE <<>>
                 skip == HookAt(log, "_before_delete") = {}
                 d == Len(log) - (IF skip THEN 0 ELSE 1)
             IN /\ obj.id # None
                /\ d - Len(own) >= 1
                /\ log[d] = DbEv("delete_one", obj.cls, obj.id)
                /\ {k \in 1..Len(log) : log[k].op = "delete_one"} = {d}
                /\ SubSeq(log, d - Len(own), d - 1) = own
                /\ ~skip => /\ HookAt(log, "_before_delete") = {1}
                            /\ HookAt(log, "_after_delete") = {Len(log)}
                            /\ log[Len(log)].key[2] = obj.id
                /\ skip => HookAt(log, "_after_delete") = {}
                /\ obj'.id = None
                /\ store'[obj.id] = NoDoc
       /\ (last.op = "destroy" /\ last.res = "ok"
           /\ last'.op = "save" /\ last'.res = "ok")
          => /\ WritesAt(last'.log) # {}
             /\ \A w \in WritesAt(last'.log) : last'.log[w].op = "insert_one"
             /\ obj'.id # last.id
             /\ store[obj'.id] = NoDoc
             /\ \A i \in Ids : i >= obj'.id => store[i] = NoDoc
             /\ store'[obj'.id] = ToDoc(obj)
             /\ store'[last.id] = store[last.id]]_vars

\* a record destroyed with hooks and invalidation was saved again and has a
\* new id
C26_Witness ==
    /\ last.op = "save" /\ last.res = "ok"
    /\ last.id = None
    /\ obj.id # None
    /\ \E i \in Ids : i < obj.id /\ store[i] = NoDoc

\* the last call was get or set of a MemcachedCache
RetryingCall == l1.kind = "memcached" /\ ret.op \in {"get", "set"}

\* C27: one _get or _set makes an attempt, and a further one after each
\* failed attempt, until an attempt succeeds or the attempt after MAX_RETRIES
\* retries has failed: it ends after at most 1 + MAX_RETRIES attempts, with
\* the result of the first attempt that succeeded (on the node that attempt
\* targeted) or, every attempt having failed, with the exception of the last.
C27_RetryingOperationTerminates ==
    RetryingCall
    => LET attempts == Len(ret.tried)
           exhausted == l1.nodes = <<>> \/ ret.faults > MAX_RETRIES
       IN /\ attempts >= 1
          /\ attempts <= 1 + MAX_RETRIES
          /\ attempts = (IF exhausted THEN 1 + MAX_RETRIES ELSE ret.faults + 1)
          /\ exhausted <=> ret.exc # ""
          /\ (exhausted /\ l1.nodes # <<>>) => ret.exc \in TransportErrors
          /\ (~exhausted /\ ret.op = "get")
             => LET node == l1.nodes[ret.tried[attempts]]
                IN ret.value = (IF DictHas(node, ret.key)
                                THEN pickle_loads(DictGet(node, ret.key)) ELSE None)
          /\ (~exhausted /\ ret.op = "set")
             => LET node == l1.nodes[ret.tried[attempts]]
                IN DictHas(node, ret.key)
                   /\ pickle_loads(DictGet(node, ret.key)) = ret.arg

\* a set has succeeded on its last permitted attempt, and a get has failed on
\* every attempt
C27_Witness ==
    /\ RetryingCall
    /\ l1.nodes # <<>>
    /\ \/ ret.op = "set" /\ ret.faults = MAX_RETRIES /\ ret.exc = ""
       \/ ret.op = "get" /\ ret.faults > MAX_RETRIES /\ ret.result = "raise"

\* C28 as stated: in one _get or _set on two or more nodes, the node of each
\* retry differs from the node of the attempt before it.
C28_RetryTargetsAnotherNode ==
    (RetryingCall /\ Len(l1.nodes) >= 2)
    => \A r \in 2..Len(ret.tried) : ret.tried[r] # ret.tried[r - 1]

\* C28, amended: the first attempt targets node hash(key) mod n, and retry r
\* targets node hash(str(hash(key)) + str(r)) mod n, n being the number of
\* nodes; the node of a retry may be the node of the attempt before it.
C28_RetryTargetsRehashedNode ==
    (RetryingCall /\ l1.nodes # <<>>)
    => LET h == server_hash_func(ret.key)
           n == Len(l1.nodes)
       IN /\ ret.tried[1] = (h % n) + 1
          /\ \A r \in 1..(Len(ret.tried) - 1) :
                ret.tried[r + 1] = (server_hash_func(StrBytes(h) \o StrBytes(r)) % n) + 1

\* an operation on two nodes has retried the node that had just failed, and
\* has also moved from one node to the other
C28_Witness ==
    /\ RetryingCall
    /\ Len(l1.nodes) = MaxNodes
    /\ \E r \in 2..Len(ret.tried) : ret.tried[r] = ret.tried[r - 1]
    /\ \E r \in 2..Len(ret.tried) : ret.tried[r] # ret.tried[r - 1]

\* the nodes that removed the key in this step
NodesDeleted(key) ==
    {n \in 1..Len(l1.nodes) : DictHas(l1.nodes[n], key) /\ ~DictHas(l1'.nodes[n], key)}

\* C29: delete(k) of a MemcachedCache removes k on every node whose client
\* does not fail and returns true exactly when some node removed k, also when
\* the client of another node fails.
C29_DeleteToleratesPartialFailure ==
    [][(l1.kind = "memcached" /\ ret'.op = "delete" /\ (ret' # ret \/ l1' # l1))
        => ret'.result = (IF NodesDeleted(ret'.key) # {} THEN "True" ELSE "False")]_vars

\* C30: after the class statements have run in any order, the references
\* evaluated when a record of a type is destroyed are exactly the references
\* registered with that type as their referenced type: one for each reference
\* field of each concrete type defined so far whose referenced type it is,
\* and none registered for a sub-type or a super-type of it.
DeclaredReferences(c) ==
    {ModelReference(of[1], of[2], RefOf(of[1], of[2]).on_destroy) :
        of \in {x \in (Defined \ AbstractClasses) \X {"master_id", "other_id", "boss_id", "parent_id"} :
                  /\ x[2] \in RefFields(x[1])
                  /\ _reference_model(x[1], x[2]) = c}}

C30_RegistryEntryOfReferencedTypeOnly ==
    \A c \in Defined : EvaluatedOnDestroy(c) = DeclaredReferences(c)

\* C21: a save() that succeeds leaves a snapshot equal to the field values,
\* held in an object of its own, so the record is unmodified; an in-place
\* mutation of the field's list changes the field and not the snapshot, so a
\* record that was unmodified is modified afterwards; the snapshot changes
\* only when the record is constructed or a save() succeeds.
C21_SnapshotIsIndependentCopy ==
    [][/\ (last'.op = "save" /\ last'.res = "ok") =>
            /\ Snapshot(obj') = Field(obj')
            /\ obj'.init.a # obj'.a
            /\ ~is_modified(obj')
       /\ last'.op \in {"append", "pop"} =>
            /\ Field(obj') # Field(obj)
            /\ Snapshot(obj') = Snapshot(obj)
            /\ ~is_modified(obj) => is_modified(obj')
       /\ (last'.op \in {"append", "pop", "assign"}
             \/ (last'.op = "save" /\ last'.res # "ok")) =>
            Snapshot(obj') = Snapshot(obj)]_vars

\* the list of a record with a non-empty snapshot was appended to in place:
\* the field is one item longer than the snapshot
C21_Witness ==
    /\ last.op = "append"
    /\ Snapshot(obj) # <<>>
    /\ Field(obj) = Append(Snapshot(obj), 2)
    /\ is_modified(obj)

\* C24: db_update(update, when) on a saved record returns True exactly when
\* the stored document with the record's id matches the when filter, and then
\* the document is the updated one; when it returns False the store and the
\* record in memory are unchanged and no cache delete is issued; when it
\* returns True with invalidate_cache the deletes of the record's cache keys
\* are issued, all of them after the store call, and none without
\* invalidate_cache; on a new record it raises ObjectSaveRequired and issues
\* no call at all.
C24_DbUpdateReportsConditionalUpdate ==
    [][last'.op = "db_update" =>
         /\ last'.res = "ObjectSaveRequired" <=> obj.id = None
         /\ last'.res = "ObjectSaveRequired" =>
               last'.log = <<>> /\ store' = store /\ obj' = obj
         /\ last'.res = "True" <=>
               /\ obj.id # None
               /\ store[obj.id].cls = obj.cls
               /\ \/ last'.when.field = ""
                  \/ store[obj.id].f[last'.when.field] = last'.when.value
         /\ last'.res = "True" =>
               /\ store'[obj.id].f[last'.update.field] = last'.update.value
               /\ \A i \in Ids \ {obj.id} : store'[i] = store[i]
               /\ last'.log[1] = DbEv("find_one_and_update", obj.cls, obj.id)
               /\ DeletesOf(last'.log) =
                     IF last'.inv THEN DeletesOf(invalidate(obj)) ELSE <<>>
               /\ \A k \in 1..Len(last'.log) : last'.log[k].op = "delete" => k > 1
         /\ last'.res = "False" =>
               /\ store' = store
               /\ obj' = obj
               /\ DeletesOf(last'.log) = <<>>]_vars

\* a db_update with a when filter on the alias updated the stored document
\* of a record that has an alias and deleted the record's cache keys
C24_Witness ==
    /\ last.op = "db_update" /\ last.res = "True" /\ last.inv
    /\ last.when.field = "alias"
    /\ last.update.value # last.when.value
    /\ store[last.id].f.alias = last.update.value
    /\ Len(DeletesOf(last.log)) >= 4

\* the stored documents an operation on type c with query q is about: those
\* the query matches and, for a sub-type, whose discriminator is the sub-type's
OwnRecords(c, q) ==
    {i \in Ids :
        /\ store[i].cls = SubmodelBase
        /\ q.field = "" \/ store[i].f[q.field] = q.value
        /\ SUBMODEL(c) = "" \/ store[i].f.submodel = SUBMODEL(c)}

\* C22: a find, update_many or destroy_many on a sub-type that completes
\* returns, changes or deletes exactly the stored records the query matches
\* whose discriminator is the sub-type's, and leaves every other document of
\* the collection as it was; on the base type it covers the matching records
\* of every sub-type, and completes when sub-types are registered and every
\* matching document has the discriminator of a registered one; an operation
\* that raises changes nothing.
C22_SubTypesAreIsolated ==
    [][last'.op \in {"find", "update_many", "destroy_many"} =>
         LET c == last'.cls
             own == OwnRecords(c, last'.query)
         IN /\ (last'.op = "find" /\ last'.res = "ok") =>
                  last'.ids = own /\ store' = store
            /\ (last'.op = "update_many" /\ last'.res = "ok") =>
                  \A i \in Ids :
                     store'[i] = IF i \in own THEN [store[i] EXCEPT !.f.field2 = 2]
                                 ELSE store[i]
            /\ (last'.op = "destroy_many" /\ last'.res = "ok") =>
                  \A i \in Ids : store'[i] = IF i \in own THEN NoDoc ELSE store[i]
            /\ last'.res # "ok" => store' = store
            /\ (/\ c = SubmodelBase
                /\ run # {}
                /\ \A i \in own : store[i].f.submodel \in LoaderNames(run)) =>
                  last'.res = "ok"]_vars

\* an update_many on Submodel2 with a query on field1 has changed a record of
\* Submodel2, and a record of Submodel1 that the query matches is unchanged
C22_Witness ==
    /\ last.op = "update_many" /\ last.cls = "Submodel2" /\ last.res = "ok"
    /\ last.query.field = "field1"
    /\ \E i, j \in Ids :
          /\ store[i] = SubDoc("submodel1", last.query.value, 1)
          /\ store[j] = SubDoc("submodel2", last.query.value, 2)

\* C23: loading a stored document through get never gives a record for a
\* document without a discriminator (MissingSubmodel) or with a discriminator
\* that is not registered with the base type (UnknownSubmodel), and
\* constructing a type from a document with another discriminator than the
\* type's raises WrongSubmodel; the application gets no record in these cases.
C23_DispatchNeverDefaults ==
    [][/\ (last'.op = "get" /\ Cursor(store, last'.query) # {}) =>
            LET d == store[last'.id].f.submodel
            IN /\ d = "" => last'.res = "MissingSubmodel" /\ obj' = obj
               /\ (d # "" /\ d \notin LoaderNames(run)) =>
                     last'.res = "UnknownSubmodel" /\ obj' = obj
       /\ last'.op = "construct" =>
            LET d == store[last'.id].f.submodel
            IN /\ d = "" => last'.res = "MissingSubmodel" /\ obj' = obj
               /\ (d # "" /\ d # SUBMODEL(last'.cls)) =>
                     last'.res = "WrongSubmodel" /\ obj' = obj]_vars

\* cls._cached_methods as StorableModel.invalidate / invalidate_many of type
\* c iterate it
InvalidatedMethods(c) == run.attrs.cm[Holder(run.attrs.cm, c)].s

\* the memoized methods type c declares or inherits
DeclaredOrInheritedMethods(c) ==
    UNION {DeclaredCachedMethods(b) : b \in SeqToSet(Mro(c))}

\* C39: after the class statements have run in any order, the memoized-method
\* names whose keys an invalidation of a record of a type deletes are exactly
\* the names of the memoized methods the type or one of its ancestors
\* declares.
C39_MemoizedMethodsOfTypeAndAncestorsOnly ==
    \A c \in Defined : InvalidatedMethods(c) = DeclaredOrInheritedMethods(c)

\* C40: update(data) of a saved record leaves the record's id and its
\* rejected field as they were, whatever keys data has; afterwards the
\* document stored under the record's id carries the record's fields with
\* the accepted values of data, and every other document of the store is as
\* it was (none is created).
C40_UpdateKeepsIdentityAndRejectedFields ==
    [][last'.op = "update" =>
         /\ obj'.id = obj.id
         /\ obj'.f.field1 = obj.f.field1
         /\ store'[obj.id].cls = "TestModel"
         /\ store'[obj.id].f.field1 = obj.f.field1
         /\ store'[obj.id].f.field2 =
               IF "field2" \in DOMAIN last'.data THEN last'.data["field2"]
               ELSE obj.f.field2
         /\ \A i \in Ids \ {obj.id} : store'[i] = store[i]]_vars

\* the entity entries of a backend agree with the store: the entry under
\* "{collection}.{v}" is the document the lookup of v finds
CoherentEntries(b) ==
    Stores(b) =>
       \A e \in b.data :
          (e[1][1] = collection("Master") /\ e[1][3] = "") =>
             e[2] = to_dict(find_one(store, "Master",
                                     _resolve_get_query("Master", e[1][2])))

\* C31: with one operation at a time, every entity entry L1 or L2 holds under
\* "{collection}.{v}" is the document now stored that the lookup of v finds.
C31_EntriesAreTheStoredDocuments == CoherentEntries(l1) /\ CoherentEntries(l2)

\* C36: destroy_all() removes every stored record of the type and issues no
\* cache delete: the entity entries and the memoized-method entries of L1 and
\* of L2 are the same after the call as before it, and a cache_get that
\* follows it for a key that has an entry hits: it returns the entry's record
\* without awaiting the loader.
C36_DestroyAllKeepsCacheEntries ==
    [][/\ last'.op = "destroy_all" =>
            /\ FindIds(store', last'.cls, AllQuery) = {}
            /\ \A k \in 1..Len(last'.log) : last'.log[k].op # "delete"
            /\ l1'.data = l1.data
            /\ l2'.data = l2.data
       /\ (/\ last.op = "destroy_all"
           /\ last'.op = "cache_get"
           /\ ret'.key # <<>>
           /\ BackendHas(l1, ret'.key) \/ BackendHas(l2, ret'.key)) =>
            /\ ret'.loads = 0
            /\ ret'.result = "value"
            /\ ret'.data = IF BackendHas(l1, ret'.key) THEN BackendGet(l1, ret'.key)
                           ELSE BackendGet(l2, ret'.key)
            /\ FindIds(store', last.cls, AllQuery) = {}]_vars

\* C36 witness: destroy_all has just emptied the collection while L2 holds an
\* entity entry and a memoized-method entry
C36_Witness ==
    /\ last.op = "destroy_all"
    /\ FindIds(store, "Master", AllQuery) = {}
    /\ \E e \in l2.data : e[1][1] = collection("Master") /\ e[1][3] = ""
    /\ \E e \in l2.data : e[1][1] = collection("Master") /\ e[1][3] # ""

\* C35: after a reload() that found the document, and after a
\* db_update(..., reload=True) that updated it, the record has the stored
\* field values and its initial-state snapshot equals them (is_modified() is
\* false), so the next save() derives the cache keys it deletes from the
\* values that are in storage.
C35_ReloadRefreshesSnapshot ==
    [][(\/ last'.op = "reload" /\ last'.res = "ok"
        \/ last'.op = "db_update" /\ last'.res = "True" /\ last'.reload) =>
          /\ obj'.f = store'[obj'.id].f
          /\ obj'.init.id = obj'.id
          /\ obj'.init.f = obj'.f]_vars

\* C38: a memoized method called on a record never returns a value cached
\* for another record of the type: the key it consults holds the record's own
\* identity, and on a New record, whose fields are those it was created
\* with, the value returned is the one the method computes from that record.
C38_MemoizedValueIsOfTheRecord ==
    [][last'.op = "cached_method" =>
         /\ ret'.key = MethodKey(obj.cls, obj.id, ret'.key[3])
         /\ is_new(obj) => ret'.value = orig_func(obj, ret'.key[3])]_vars

\* C37: a cache_get on a type of the sub-type hierarchy that hits in L1 or
\* L2 gives what the uncached get of the same identity gives while the stored
\* document is the one the entry was populated from: a record of the same
\* concrete type with the same field values, and no error that get would
\* not raise.
C37_HitEqualsUncachedGet ==
    [][(last'.op = "cache_get" /\ last'.log = <<0>>) =>
          LET got == SubGet(run, store, last'.cls, last'.id)
          IN /\ last'.res = (IF got.raised # "" THEN got.raised ELSE "ok")
             /\ last'.res = "ok" => obj' = got.obj]_vars

\* C32: while a save deletes the keys of R, a cache_get of one of them that
\* returns the record of a cache hit built it from a value that was stored
\* under the key, never from the absent value get gives for a key deleted
\* after has found it.
C32_HitIsBuiltFromStoredValue ==
    \A r \in Readers :
       (run.readers[r].pc = "done" /\ run.readers[r].hit) =>
          run.readers[r].data # NoData

\* C34 (as claimed): after a successful destroy() no stored record holds, in
\* a reference field, the identity of a record of the referenced type that
\* this destroy deleted, be it the owner or a record deleted by the cascade.
C34_CascadeLeavesNoDanglingReference ==
    [][(last'.op = "destroy" /\ last'.res = "ok") =>
          \A j \in {i \in Ids : store'[i] # NoDoc} :
          \A field \in RefFieldsOf[store'[j].cls] :
             LET v == store'[j].f[field]
             IN (v \in Ids /\ store[v].cls = RefOf(store'[j].cls, field).reference_model)
                   => store'[v] # NoDoc]_vars

\* C34 (amended): a successful destroy() applies the policies of the owner's
\* own dependents only.  Afterwards no stored record holds the owner's
\* identity in a field that refers to the owner's type; the records it deleted
\* besides the owner are the stored dependents that referenced the owner
\* through a Cascade-policy field, all of them; and every record of a type
\* without a reference to the owner's type is left as it was, a dependent of a
\* record deleted by the cascade included.
C34_CascadeAppliesOwnerPoliciesOnly ==
    [][(last'.op = "destroy" /\ last'.res = "ok") =>
          LET cascaded ==
                 {j \in Ids : \E ref \in ReferencesOf[obj.cls] :
                                 /\ ref.on_destroy = CASCADE
                                 /\ store[j].cls = ref.ref_class
                                 /\ store[j].f[ref.ref_field] = obj.id}
              refers(c) == \E field \in RefFieldsOf[c] :
                              RefOf(c, field).reference_model = obj.cls
          IN /\ \A j \in {i \in Ids : store'[i] # NoDoc} :
                \A field \in RefFieldsOf[store'[j].cls] :
                   RefOf(store'[j].cls, field).reference_model = obj.cls
                      => store'[j].f[field] # obj.id
             /\ {j \in Ids : store[j] # NoDoc /\ store'[j] = NoDoc}
                   = {obj.id} \cup cascaded
             /\ \A j \in {i \in Ids \ {obj.id} : store[i] # NoDoc} :
                   ~refers(store[j].cls) => store'[j] = store[j]]_vars

\* C34 witness: the destroy of a Master has deleted, by the cascade, a Task
\* that a stored Subtask still refers to
C34_Witness ==
    /\ last.op = "destroy" /\ last.res = "ok" /\ last.cls = "Master"
    /\ \E k \in 1..Len(last.log) : last.log[k] = BulkEvent("delete_many", "Task")
    /\ \E j \in Ids :
          /\ store[j].cls = "Subtask"
          /\ store[j].f.other_id \in Ids
          /\ store[store[j].f.other_id] = NoDoc

\* C33: once the save of a dependent and the destroy of the owner O have both
\* finished, it is not the case that O's document is deleted while a stored
\* dependent holds O's identity in its Raise-policy field master_id.
C33_NoDanglingRaiseReferenceAfterRace ==
    (/\ run.saver.pc \in {"idle", "done", "failed"}
     /\ run.destroyer.pc \in {"idle", "done", "refused"}) =>
       ~(/\ store[TheId] = NoDoc
         /\ \E j \in Ids : /\ store[j].cls \in {"Minion", "Task"}
                            /\ store[j].f.master_id = TheId)
====
